---------------------------- MODULE Spec2Model ----------------------------
(***************************************************************************)
(* Model of the Odoo synchronisation code of the scraper repository:       *)
(*   - OdooConnector._execute_with_retry / execute_kw      (src/main.py)   *)
(*   - PrAutoParteScraper.process_matched_products_optimized and the       *)
(*     reference-data preloads                              (src/main.py)  *)
(*   - OdooConnector.update_matched_products_batch and                     *)
(*     OdooConnector._batch_update_stock_quants             (src/main.py)  *)
(*   - OdooConnector.update_matched_product and                            *)
(*     OdooConnector.update_matched_product_optimized       (src/main.py)  *)
(*                                                                         *)
(*   - CodeNormalizer.normalize_code and _load_matched_codes (src/main.py) *)
(*   - SVScraper / SVScraperV2: lookups, scraping and update_odoo_stock    *)
(*                                 (src/sv_scraper.py, src/sv_scraper_v2.py)*)
(*   - the purchase-order automation          (src/odoo_code/v2_generacion_ *)
(*                                             orden_compra_venta_scraper) *)
(*                                                                         *)
(* Specifications:                                                         *)
(*   SpecRetry     : the retry wrapper alone, one action per attempt.      *)
(*   Spec          : one synchronisation pass (cache build, stock pass).   *)
(*   SpecPreload   : the reference-data preloads.                          *)
(*   SpecNormalize : normalize_code.                                       *)
(*   SpecMatch     : the code matcher.                                     *)
(*   SpecLookup    : parallel supplier lookups and their sessions.         *)
(*   SpecSearch    : SVScraperV2.search_product.                           *)
(*   SpecScrape    : SVScraperV2.run, scraping then update_odoo_stock.     *)
(*   SpecTwice     : two stock passes in succession.                       *)
(*   SpecPO        : the purchase-order automation and the automation on   *)
(*                   the receptions of its orders (second version).        *)
(*   SpecPOv1      : the first version of the two automations.             *)
(*   SpecBulkCreate: the stock batch over more items than one create chunk.*)
(*   SpecSingle    : one call of update_matched_product or of              *)
(*                   update_matched_product_optimized (not part of a pass).*)
(***************************************************************************)
EXTENDS Integers, Sequences, FiniteSets, TLC

VARIABLES
    \* ---- retry wrapper (_execute_with_retry) ----
    rPc,        \* "idle" | "call" | "returned" | "raised"
    rAttempt,   \* the loop variable `attempt`
    rCalls,     \* number of invocations of func so far in this call
    rSleeps,    \* the delays passed to time.sleep, in order
    rOutcomes,  \* what each invocation of func did, in order
    rResult,    \* value returned, or exception propagated, to the caller
    rLastError, \* the local last_error
    \* ---- the external system (Odoo) ----
    wProd,      \* scraping code -> id of the product.product its code resolves to (0: none)
    wStorable,  \* products with is_storable
    wBom,       \* templates that have an mrp.bom
    wQuant,     \* product -> quantity of its stock.quant at the location (no entry: no quant)
    wRules,     \* stock.warehouse.orderpoint: rule id -> product of the rule
    \* ---- one pass of process_matched_products_optimized ----
    items,      \* products_data_batch: sequence of [code, avail]
    pc,         \* position in the pass
    cache,      \* cached_data
    product_ids,            \* eligible product ids, in input order
    product_id_to_code,     \* product_id_to_scraping_code
    product_id_to_avail,    \* product_id_to_data[...]['disponibilidad']
    existing_quants,        \* products for which the preload found a quant
    quants_to_update,       \* sequence of [prod, qty, code]
    quants_to_create,       \* sequence of [prod, qty, code]
    idx,        \* loop index of the running write / fallback loop
    results,    \* the stock outcome: updated, created, kits_skipped, ...
    rpc,        \* every execute_kw request issued, in order
    \* ---- successive passes over the same external system ----
    run,        \* number of the pass under way (1, 2)
    first_run,  \* the external stock records and the requests at the end of pass 1
    \* ---- CodeNormalizer.normalize_code ----
    code_arg,   \* the argument `code`
    normalized, \* results of successive applications: f(code), f(f(code))
    variant,    \* a code that differs from the argument by one edit, and its key
    \* ---- _load_matched_codes / match_products ----
    df_productos,            \* the authoritative column (default_code), row order
    df_articulos,            \* the scraped column (codigo), row order
    codigos_productos,       \* set of stripped authoritative codes
    codigos_productos_norm,  \* normalized key -> authoritative code
    codigos_articulos,       \* set of stripped scraped codes
    codigos_articulos_norm,  \* normalized key -> scraped code
    scraping_to_odoo_code,   \* the MatchMapping
    matched_codes_exact,
    matched_codes_normalized,
    matched_codes,
    mpc,        \* position in the matcher
    \* ---- parallel supplier-catalog lookups (sv_scraper, sv_scraper_v2) ----
    scraper,        \* which class runs the lookups
    thread_session, \* thread -> the session object its requests go through
    pending,        \* codes submitted to the pool and not yet taken
    task,           \* thread -> the lookup it is in
    http_requests,  \* every GET issued: thread, session object, code
    \* ---- SVScraperV2.search_product ----
    retries,            \* the argument `retries`
    retry_on_empty,     \* the argument `retry_on_empty`
    sp_attempt,         \* the loop variable `attempt`
    empty_retries_left,
    responses,          \* what the API answered to each GET of this call, in order
    sp_return,          \* "running", or what the call returned: "product" | "None"
    \* ---- SVScraperV2.scrape_all_products / retry_not_found_sequential ----
    codes_list,         \* the submitted codes
    futures,            \* code -> state of its future and what process_code returned
    stock_results,      \* `results`: sequence of [code, stock], in dict order
    not_found,
    found_without_stock,
    processed,
    found_count,        \* the local `found`
    still_not_found,
    recovered,
    spc,                \* position in SVScraperV2.run
    \* ---- purchase-order automation (odoo_code) ----
    res_partner,        \* res.partner: the names of the suppliers
    move_lines,         \* picking.move_line_ids: sequence of move lines
    purchase_orders,    \* purchase.order: [partner, origin, state, lines] and the run that created it
    automation_runs,    \* how many times the automation ran on the picking
    seller_ids          \* product.seller_ids[0].partner_id, per product of the picking

retryVars == <<rPc, rAttempt, rCalls, rSleeps, rOutcomes, rResult, rLastError>>

worldVars == <<wProd, wStorable, wBom, wQuant, wRules>>

passVars == <<items, pc, cache, product_ids, product_id_to_code, product_id_to_avail,
              existing_quants, quants_to_update, quants_to_create, idx, results, rpc>>

runVars == <<run, first_run>>

normVars == <<code_arg, normalized, variant>>

matchVars == <<df_productos, df_articulos, codigos_productos, codigos_productos_norm,
               codigos_articulos, codigos_articulos_norm, scraping_to_odoo_code,
               matched_codes_exact, matched_codes_normalized, matched_codes, mpc>>

lookupVars == <<scraper, thread_session, pending, task, http_requests>>

searchVars == <<retries, retry_on_empty, sp_attempt, empty_retries_left, responses, sp_return>>

scrapeVars == <<codes_list, futures, stock_results, not_found, found_without_stock,
                processed, found_count, still_not_found, recovered, spc>>

poVars == <<res_partner, move_lines, purchase_orders, automation_runs, seller_ids>>

vars == <<retryVars, worldVars, passVars, runVars, normVars, matchVars, lookupVars,
          searchVars, scrapeVars, poVars>>

None == "None"
NoResult == <<>>

(***************************************************************************)
(* Exceptions are modelled by their message, a sequence of words; the      *)
(* `in` tests of the wrapper are substring tests, modelled as a test on    *)
(* the words, and str.lower() as a map on words.                           *)
(***************************************************************************)
Lower(w) ==
    CASE w = "Timeout"           -> "timeout"
      [] w = "Temporarily"       -> "temporarily"
      [] w = "Temporally"        -> "temporally"
      [] w = "Connection"        -> "connection"
      [] w = "Denied"            -> "denied"
      [] w = "Access"            -> "access"
      [] w = "ValidationError"   -> "validationerror"
      [] w = "Too Many Requests" -> "too many requests"
      [] OTHER                   -> w

Contains(msg, w) == \E i \in 1..Len(msg) : msg[i] = w

ContainsLower(msg, w) == \E i \in 1..Len(msg) : Lower(msg[i]) = w

\* Messages the remote end (xmlrpc, sockets) can produce.
ErrorMessages ==
    { <<"429">>,
      <<"Too Many Requests">>,
      <<"Connection", "refused">>,
      <<"read", "Timeout">>,
      <<"Temporarily", "unavailable">>,
      <<"connection", "reset">>,
      <<"Access", "Denied">>,
      <<"ValidationError">> }

\* main.py:150
IsRateLimit(msg) == Contains(msg, "429") \/ Contains(msg, "Too Many Requests")

\* main.py:151-152
IsConnectionError(msg) ==
    \/ Contains(msg, "Connection")
    \/ ContainsLower(msg, "timeout")
    \/ Contains(msg, "Temporally")
    \/ ContainsLower(msg, "temporarily")

IsTransient(msg) == IsRateLimit(msg) \/ IsConnectionError(msg)

\* self.max_retries, self.initial_retry_delay
max_retries == 5
initial_retry_delay == 2

RECURSIVE Pow2(_)
Pow2(n) == IF n = 0 THEN 1 ELSE 2 * Pow2(n - 1)

BackoffDelayMutant(attempt) == initial_retry_delay

\* main.py:157
BackoffDelay(attempt) == initial_retry_delay * Pow2(attempt)

\* Values the wrapped function can return.
Values == {<<"v1">>, <<"v2">>}

Ok(v) == [ok |-> TRUE, val |-> v]
Err(m) == [ok |-> FALSE, val |-> m]

CallOutcomes == { Ok(v) : v \in Values } \cup { Err(m) : m \in ErrorMessages }

RetryDecisionNoLimit(attempt, outcome) ==
    IF outcome.ok THEN [kind |-> "return"]
    ELSE IF IsTransient(outcome.val)
         THEN [kind |-> "sleep", delay |-> BackoffDelay(attempt)]
         ELSE [kind |-> "raise"]

RetryDecisionRetryAll(attempt, outcome) ==
    IF outcome.ok THEN [kind |-> "return"]
    ELSE IF attempt < max_retries - 1
         THEN [kind |-> "sleep", delay |-> BackoffDelay(attempt)]
         ELSE [kind |-> "raise"]

(***************************************************************************)
(* One iteration of the loop body, main.py:143-166: what the wrapper does  *)
(* with the outcome of one invocation of func.                             *)
(***************************************************************************)
RetryDecision(attempt, outcome) ==
    IF outcome.ok THEN [kind |-> "return"]
    ELSE IF IsTransient(outcome.val) /\ attempt < max_retries - 1
         THEN [kind |-> "sleep", delay |-> BackoffDelay(attempt)]
         ELSE [kind |-> "raise"]

RetryInit ==
    /\ rPc = "idle"
    /\ rAttempt = 0
    /\ rCalls = 0
    /\ rSleeps = <<>>
    /\ rOutcomes = <<>>
    /\ rResult = NoResult
    /\ rLastError = NoResult

\* Entry of _execute_with_retry (main.py:139-141); the connector is reused
\* for every call, so a finished call can be followed by a new one.
RetryBegin ==
    /\ rPc \in {"idle", "returned", "raised"}
    /\ rPc' = "call"
    /\ rAttempt' = 0
    /\ rCalls' = 0
    /\ rSleeps' = <<>>
    /\ rOutcomes' = <<>>
    /\ rResult' = NoResult
    /\ rLastError' = NoResult
    /\ UNCHANGED <<worldVars, passVars, runVars, normVars, matchVars, lookupVars, searchVars, scrapeVars, poVars>>

\* One pass through the for body (main.py:142-166), or the statement after
\* the loop (main.py:169) once range(max_retries) is exhausted.
RetryAttempt ==
    /\ rPc = "call"
    /\ UNCHANGED <<worldVars, passVars, runVars, normVars, matchVars, lookupVars, searchVars, scrapeVars, poVars>>
    /\ IF rAttempt >= max_retries
       THEN /\ rPc' = "raised"
            /\ rResult' = rLastError
            /\ UNCHANGED <<rAttempt, rCalls, rSleeps, rOutcomes, rLastError>>
       ELSE \E outcome \in CallOutcomes :
            LET d == RetryDecision(rAttempt, outcome) IN
            /\ rCalls' = rCalls + 1
            /\ rOutcomes' = Append(rOutcomes, outcome)
            /\ rLastError' = IF outcome.ok THEN rLastError ELSE outcome.val
            /\ CASE d.kind = "return" ->
                      /\ rPc' = "returned"
                      /\ rResult' = outcome.val
                      /\ UNCHANGED <<rAttempt, rSleeps>>
                 [] d.kind = "sleep" ->
                      /\ rPc' = "call"
                      /\ rSleeps' = Append(rSleeps, d.delay)
                      /\ rAttempt' = rAttempt + 1
                      /\ UNCHANGED rResult
                 [] OTHER ->
                      /\ rPc' = "raised"
                      /\ rResult' = outcome.val
                      /\ UNCHANGED <<rAttempt, rSleeps>>


(***************************************************************************)
(* _execute_with_retry run to completion against a remote end that answers *)
(* the successive invocations with script[1], script[2], ... (and goes on  *)
(* answering like the last entry).  Built from the same RetryDecision as   *)
(* the step-wise wrapper above.                                            *)
(***************************************************************************)
ScriptAt(script, i) == IF i <= Len(script) THEN script[i] ELSE script[Len(script)]

RECURSIVE RunWithRetry(_, _, _)
RunWithRetry(script, attempt, sleeps) ==
    IF attempt >= max_retries
    THEN [ok |-> FALSE, val |-> ScriptAt(script, attempt).val,
          calls |-> attempt, sleeps |-> sleeps]
    ELSE LET outcome == ScriptAt(script, attempt + 1)
             d == RetryDecision(attempt, outcome)
         IN  CASE d.kind = "return" ->
                    [ok |-> TRUE, val |-> outcome.val,
                     calls |-> attempt + 1, sleeps |-> sleeps]
               [] d.kind = "sleep" ->
                    RunWithRetry(script, attempt + 1, Append(sleeps, d.delay))
               [] OTHER ->
                    [ok |-> FALSE, val |-> outcome.val,
                     calls |-> attempt + 1, sleeps |-> sleeps]

\* OdooConnector.execute_kw: the call goes through the wrapper.
ExecuteKw(script) == RunWithRetry(script, 0, <<>>)

\* self.models.execute_kw: the bare xmlrpc proxy, one invocation.
ModelsExecuteKw(script) ==
    [ok |-> script[1].ok, val |-> script[1].val, calls |-> 1, sleeps |-> <<>>]

RateLimited == Err(<<"429">>)
Rejected == Err(<<"ValidationError">>)
Answered == Ok(<<"v1">>)

\* How the remote end answers one request of a pass.
RemoteScripts ==
    { <<Answered>>,
      <<RateLimited, Answered>>,
      <<Rejected>>,
      <<RateLimited, RateLimited, RateLimited, RateLimited, RateLimited>> }

(***************************************************************************)
(* The pass: inputs and the external system.                               *)
(***************************************************************************)
MaxItems == 2
MaxProducts == 2

CodeNames == <<"X1", "X2", "X3", "X4">>
Codes == { CodeNames[i] : i \in 1..MaxItems }
Products == 1..MaxProducts
BatchCode == "batch"

\* product.product -> product.template (product_tmpl_id)
TemplateOf(p) == p
Templates == { TemplateOf(p) : p \in Products }

LocId == "TODO/Stock/StockSCRAP"

(***************************************************************************)
(* data['disponibilidad'] as the scraper delivers it: None (or key         *)
(* absent), an empty string, an int, a numeric or non-numeric string, or a *)
(* float NaN (pandas).  Python's truthiness and int() on each.             *)
(***************************************************************************)
AvailValues == {"None", "''", "0", "2", "'abc'", "nan"}

Truthy(a) == a \notin {"None", "''", "0"}

\* int(a); when it raises, err is str(e) of the ValueError.
IntOf(a) ==
    CASE a = "0"     -> [ok |-> TRUE, val |-> 0, err |-> <<>>]
      [] a = "2"     -> [ok |-> TRUE, val |-> 2, err |-> <<>>]
      [] a = "'abc'" -> [ok |-> FALSE, val |-> 0,
                         err |-> <<"invalid literal for int() with base 10: 'abc'">>]
      [] a = "nan"   -> [ok |-> FALSE, val |-> 0,
                         err |-> <<"cannot convert float NaN to integer">>]

\* main.py:1327-1328: int(disponibilidad) if disponibilidad else 0
CoerceAvail(a) == IF Truthy(a) THEN IntOf(a) ELSE [ok |-> TRUE, val |-> 0, err |-> <<>>]

StockQuantityDirect(d) == d

\* main.py:1330: 1 if disponibilidad == 0 else 0
StockQuantity(d) == IF d = 0 THEN 1 ELSE 0

EmptyResults ==
    [updated |-> <<>>, created |-> <<>>, kits_skipped |-> <<>>,
     non_storable_skipped |-> <<>>, errors |-> <<>>]

EmptyFn == [x \in {} |-> 0]

EmptyCache ==
    [loc |-> None, product_info |-> EmptyFn, kits_info |-> {}, existing_rules |-> EmptyFn]

Request(model, method, recs, wrapped, r) ==
    [model |-> model, method |-> method, recs |-> recs, wrapped |-> wrapped,
     attempts |-> r.calls, ok |-> r.ok, err |-> IF r.ok THEN <<>> ELSE r.val]

(***************************************************************************)
(* CodeNormalizer.normalize_code, main.py:34-52.  A str is a sequence of   *)
(* one-character strings; the argument is a str, None or a float NaN (a    *)
(* missing cell of a pandas column).                                       *)
(***************************************************************************)
MaxLen == 3

Whitespace == {" ", "\t"}
Alphabet == {"a", "A", "1", "+", " ", "\t", ".", "-", "_", "/", "(", ")", "[", "]"}

PyNone == [t |-> "NoneType", s |-> <<>>]
PyNaN == [t |-> "float", s |-> <<"n", "a", "n">>]
PyStr(s) == [t |-> "str", s |-> s]

StrsUpTo(n) == UNION { [1..k -> Alphabet] : k \in 0..n }
CodeInputs == {PyNone, PyNaN} \cup { PyStr(s) : s \in StrsUpTo(MaxLen) }

\* `not code`: None and the empty str are falsy; NaN is truthy.
Falsy(c) == c.t = "NoneType" \/ (c.t = "str" /\ c.s = <<>>)

\* pd.isna(code)
IsNa(c) == c.t \in {"NoneType", "float"}

RECURSIVE LStrip(_)
LStrip(s) == IF s # <<>> /\ Head(s) \in Whitespace THEN LStrip(Tail(s)) ELSE s

RECURSIVE RStrip(_)
RStrip(s) ==
    IF s # <<>> /\ s[Len(s)] \in Whitespace THEN RStrip(SubSeq(s, 1, Len(s) - 1)) ELSE s

\* str.strip()
Strip(s) == RStrip(LStrip(s))

\* ' '.join(s.split()): the whitespace-free words of s, one space between
\* two of them.
RECURSIVE JoinSplit(_, _, _)
JoinSplit(s, i, inWord) ==
    IF i > Len(s) THEN <<>>
    ELSE IF s[i] \in Whitespace
         THEN (IF inWord /\ LStrip(SubSeq(s, i, Len(s))) # <<>> THEN <<" ">> ELSE <<>>)
                \o JoinSplit(s, i + 1, FALSE)
         ELSE <<s[i]>> \o JoinSplit(s, i + 1, TRUE)

UpperCharIdentity(c) == c

\* str.upper(), character by character
UpperChar(c) == IF c = "a" THEN "A" ELSE c

Upper(s) == [i \in 1..Len(s) |-> UpperChar(s[i])]

\* main.py:48
chars_to_remove == <<".", "-", "_", "/", "(", ")", "[", "]", " ">>

RECURSIVE ReplaceFirst(_, _)
ReplaceFirst(s, ch) ==
    IF s = <<>> THEN <<>>
    ELSE IF Head(s) = ch THEN Tail(s)
    ELSE <<Head(s)>> \o ReplaceFirst(Tail(s), ch)

\* code_str.replace(char, ''), main.py:50
RECURSIVE Replace(_, _)
Replace(s, ch) ==
    IF s = <<>> THEN <<>>
    ELSE (IF Head(s) = ch THEN <<>> ELSE <<Head(s)>>) \o Replace(Tail(s), ch)

\* main.py:49-50: the for loop over chars_to_remove
RECURSIVE RemoveChars(_, _)
RemoveChars(s, i) ==
    IF i > Len(chars_to_remove) THEN s
    ELSE RemoveChars(Replace(s, chars_to_remove[i]), i + 1)

normalize_code(c) ==
    IF Falsy(c) \/ IsNa(c) THEN <<>>
    ELSE Strip(RemoveChars(Upper(JoinSplit(Strip(c.s), 1, FALSE)), 1))

NoVariant == [set |-> FALSE, code |-> <<>>, key |-> <<>>]

NormIdle ==
    /\ code_arg = PyNone
    /\ normalized = <<>>
    /\ variant = NoVariant

NoSnapshot == [done |-> FALSE, quants |-> EmptyFn, calls |-> 0]

RunFirst ==
    /\ run = 1
    /\ first_run = NoSnapshot

MatchIdle ==
    /\ df_productos = <<>>
    /\ df_articulos = <<>>
    /\ codigos_productos = {}
    /\ codigos_productos_norm = EmptyFn
    /\ codigos_articulos = {}
    /\ codigos_articulos_norm = EmptyFn
    /\ scraping_to_odoo_code = EmptyFn
    /\ matched_codes_exact = {}
    /\ matched_codes_normalized = {}
    /\ matched_codes = {}
    /\ mpc = "off"

LookupIdle ==
    /\ scraper = "none"
    /\ thread_session = EmptyFn
    /\ pending = <<>>
    /\ task = EmptyFn
    /\ http_requests = <<>>

PassIdle ==
    /\ wProd = EmptyFn
    /\ wStorable = {}
    /\ wBom = {}
    /\ wQuant = EmptyFn
    /\ wRules = EmptyFn
    /\ items = <<>>
    /\ pc = "off"
    /\ cache = EmptyCache
    /\ product_ids = <<>>
    /\ product_id_to_code = EmptyFn
    /\ product_id_to_avail = EmptyFn
    /\ existing_quants = {}
    /\ quants_to_update = <<>>
    /\ quants_to_create = <<>>
    /\ idx = 0
    /\ results = EmptyResults
    /\ rpc = <<>>

\* No search_product call under way.
SearchIdle ==
    /\ retries = 0
    /\ retry_on_empty = 0
    /\ sp_attempt = 0
    /\ empty_retries_left = 0
    /\ responses = <<>>
    /\ sp_return = "None"

\* No run of SVScraperV2 under way.
ScrapeIdle ==
    /\ codes_list = <<>>
    /\ futures = EmptyFn
    /\ stock_results = <<>>
    /\ not_found = <<>>
    /\ found_without_stock = <<>>
    /\ processed = 0
    /\ found_count = 0
    /\ still_not_found = <<>>
    /\ recovered = 0
    /\ spc = "off"

\* No picking, partner or purchase order.
POIdle ==
    /\ res_partner = {}
    /\ move_lines = <<>>
    /\ purchase_orders = <<>>
    /\ automation_runs = 0
    /\ seller_ids = <<>>

OthersIdle == SearchIdle /\ ScrapeIdle /\ POIdle

InitRetry == RetryInit /\ PassIdle /\ RunFirst /\ NormIdle /\ MatchIdle /\ LookupIdle /\ OthersIdle

NextRetry == RetryBegin \/ RetryAttempt

SpecRetry == InitRetry /\ [][NextRetry]_vars

ReferencedProducts(n, prod) == { prod[CodeNames[i]] : i \in 1..n } \ {0}

(***************************************************************************)
(* Initial states of a pass: up to MaxItems matched items with distinct    *)
(* codes (matched_codes is a set), each resolving to a product of the      *)
(* registry or to none, two codes possibly to the same product.  Products  *)
(* no item refers to are never read and are left without attributes.       *)
(***************************************************************************)
PassInputs ==
    \E n \in 0..MaxItems :
     /\ \E av \in [1..n -> AvailValues] :
          items = [i \in 1..n |-> [code |-> CodeNames[i], avail |-> av[i]]]
     /\ wProd \in [Codes -> 0..MaxProducts]
     /\ \A i \in (n + 1)..MaxItems : wProd[CodeNames[i]] = 0
     /\ wStorable \in SUBSET ReferencedProducts(n, wProd)
     /\ wBom \in SUBSET { TemplateOf(p) : p \in ReferencedProducts(n, wProd) }
     /\ \E Q \in SUBSET ReferencedProducts(n, wProd) : wQuant = [p \in Q |-> 0]

PassLocals ==
    /\ product_ids = <<>>
    /\ product_id_to_code = EmptyFn
    /\ product_id_to_avail = EmptyFn
    /\ existing_quants = {}
    /\ quants_to_update = <<>>
    /\ quants_to_create = <<>>
    /\ idx = 0
    /\ results = EmptyResults
    /\ rpc = <<>>

Init ==
    /\ RetryInit
    /\ PassInputs
    /\ wRules = EmptyFn
    /\ pc = "connect"
    /\ cache = EmptyCache
    /\ PassLocals
    /\ RunFirst
    /\ NormIdle
    /\ MatchIdle
    /\ LookupIdle
    /\ OthersIdle

PassFrame ==
    UNCHANGED <<retryVars, wProd, wStorable, wBom, wRules, items,
                runVars, normVars, matchVars, lookupVars, searchVars, scrapeVars, poVars>>


(***************************************************************************)
(* process_matched_products_optimized, main.py:2596-2603: connect().       *)
(* Without a connection the pass goes on without Odoo (no remote call).    *)
(***************************************************************************)
Connect ==
    /\ pc = "connect"
    /\ \E connected \in BOOLEAN :
         pc' = IF connected THEN "location" ELSE "offline"
    /\ UNCHANGED <<cache, product_ids, product_id_to_code, product_id_to_avail,
                   existing_quants, quants_to_update, quants_to_create, idx,
                   results, rpc, wQuant>>
    /\ PassFrame

\* main.py:766-771, 782-788, 799-805: the first lookup reads stock.warehouse,
\* the second and the third read stock.location.
LocationLookups(n, raised) ==
    [i \in 1..n |->
        Request(IF i = 1 THEN "stock.warehouse" ELSE "stock.location",
                "search_read", <<>>, FALSE,
                ModelsExecuteKw(<<IF i = raised THEN Rejected ELSE Answered>>))]

AfterLocationIgnoreMissing(loc) == "prodinfo"

\* main.py:2623-2625: hard stop when the location is not resolved.
AfterLocation(loc) == IF loc = None THEN "aborted" ELSE "prodinfo"

(***************************************************************************)
(* _get_depo_scraping_location, main.py:762-815, and its use at            *)
(* main.py:2622-2625.  Three chained lookups (warehouse TODO, location     *)
(* Stock, location StockSCRAP); `found` of them return a row, and lookup   *)
(* number `raised` (0: none) raises.  An empty answer or an exception      *)
(* gives None.                                                             *)
(***************************************************************************)
ResolveLocation ==
    /\ pc = "location"
    /\ \E found \in 0..3 :
       \E raised \in 0..3 :
         LET issued == IF found < 3 THEN found + 1 ELSE 3
             n == IF raised \in 1..issued THEN raised ELSE issued
             loc == IF found = 3 /\ raised = 0 THEN LocId ELSE None
         IN /\ raised <= issued
            /\ rpc' = rpc \o LocationLookups(n, raised)
            /\ cache' = [cache EXCEPT !.loc = loc]
            /\ pc' = AfterLocation(loc)
    /\ UNCHANGED <<product_ids, product_id_to_code, product_id_to_avail,
                   existing_quants, quants_to_update, quants_to_create, idx,
                   results, wQuant>>
    /\ PassFrame

ItemCodes == { items[i].code : i \in 1..Len(items) }

ProductInfoOf(p) ==
    [product_id |-> p, template_id |-> TemplateOf(p), is_storable |-> p \in wStorable]

\* main.py:2471-2476: one search_read with an `in` filter over all the codes.
ProductInfoRequests(r) == <<Request("product.product", "search_read", <<>>, TRUE, r)>>

(***************************************************************************)
(* _preload_product_information, main.py:2453-2501: one search_read over   *)
(* all the codes, through execute_kw; any exception gives {}.              *)
(***************************************************************************)
PreloadProductInformation ==
    /\ pc = "prodinfo"
    /\ \E script \in RemoteScripts :
         LET r == ExecuteKw(script)
             found == { c \in ItemCodes : wProd[c] # 0 }
         IN /\ rpc' = rpc \o ProductInfoRequests(r)
            /\ cache' = [cache EXCEPT !.product_info =
                           IF r.ok THEN [c \in found |-> ProductInfoOf(wProd[c])]
                           ELSE EmptyFn]
    /\ pc' = "kits"
    /\ UNCHANGED <<product_ids, product_id_to_code, product_id_to_avail,
                   existing_quants, quants_to_update, quants_to_create, idx,
                   results, wQuant>>
    /\ PassFrame

CachedTemplates == { cache.product_info[c].template_id : c \in DOMAIN cache.product_info }

(***************************************************************************)
(* _preload_kits_information, main.py:2503-2535: no call when product_info *)
(* is empty; else one search_read on mrp.bom through execute_kw; any       *)
(* exception gives set().                                                  *)
(***************************************************************************)
PreloadKitsInformation ==
    /\ pc = "kits"
    /\ IF CachedTemplates = {}
       THEN UNCHANGED <<cache, rpc>>
       ELSE \E script \in RemoteScripts :
              LET r == ExecuteKw(script) IN
              /\ rpc' = Append(rpc, Request("mrp.bom", "search_read", <<>>, TRUE, r))
              /\ cache' = [cache EXCEPT !.kits_info =
                             IF r.ok THEN CachedTemplates \cap wBom ELSE {}]
    /\ pc' = "batch"
    /\ UNCHANGED <<product_ids, product_id_to_code, product_id_to_avail,
                   existing_quants, quants_to_update, quants_to_create, idx,
                   results, wQuant>>
    /\ PassFrame

NotInCache == <<"Producto no encontrado en cache">>

IsKitNever(info) == FALSE

\* main.py:1296: template_id in kits_info
IsKit(info) == info.template_id \in cache.kits_info

\* main.py:1302: info.get('is_storable', False)
IsStorable(info) == info.is_storable

(***************************************************************************)
(* One iteration of the first loop of _batch_update_stock_quants,          *)
(* main.py:1286-1309.  st holds product_ids, the two product-id keyed      *)
(* dicts and results.                                                      *)
(***************************************************************************)
PartitionStep(st, item) ==
    IF item.code \notin DOMAIN cache.product_info
    THEN [st EXCEPT !.res.errors = Append(@, [code |-> item.code, error |-> NotInCache])]
    ELSE LET info == cache.product_info[item.code]
             product_id == info.product_id
         IN  IF IsKit(info)
             THEN [st EXCEPT !.res.kits_skipped = Append(@, item.code)]
             ELSE IF ~IsStorable(info)
             THEN [st EXCEPT !.res.non_storable_skipped = Append(@, item.code)]
             ELSE [st EXCEPT !.ids = Append(@, product_id),
                             !.code_of = (product_id :> item.code) @@ @,
                             !.avail_of = (product_id :> item.avail) @@ @]

RECURSIVE PartitionFrom(_, _)
PartitionFrom(st, i) ==
    IF i > Len(items) THEN st ELSE PartitionFrom(PartitionStep(st, items[i]), i + 1)

(***************************************************************************)
(* update_matched_products_batch -> _batch_update_stock_quants up to the   *)
(* early return, main.py:2665-2668, 1699-1717, 1268-1313.  With no item    *)
(* the batch is not started at all.                                        *)
(***************************************************************************)
PartitionProducts ==
    /\ pc = "batch"
    /\ IF items = <<>>
       THEN /\ pc' = "done"
            /\ UNCHANGED <<product_ids, product_id_to_code, product_id_to_avail, results>>
       ELSE LET st == PartitionFrom([ids |-> <<>>, code_of |-> EmptyFn,
                                     avail_of |-> EmptyFn, res |-> EmptyResults], 1)
            IN /\ product_ids' = st.ids
               /\ product_id_to_code' = st.code_of
               /\ product_id_to_avail' = st.avail_of
               /\ results' = st.res
               /\ pc' = IF st.ids = <<>> THEN "done" ELSE "quants"
    /\ UNCHANGED <<cache, existing_quants, quants_to_update, quants_to_create, idx,
                   rpc, wQuant>>
    /\ PassFrame

SeqRangeEmpty(s) == {}

\* The ids of a domain filter [('product_id', 'in', ids)].
SeqRange(s) == { s[i] : i \in 1..Len(s) }

PreloadExistingQuantsIntoCache ==
    /\ pc = "quants"
    /\ \E script \in {<<Answered>>, <<RateLimited>>, <<Rejected>>} :
         LET r == ModelsExecuteKw(script) IN
         /\ rpc' = Append(rpc, Request("stock.quant", "search_read", <<>>, FALSE, r))
         /\ existing_quants' = IF r.ok THEN SeqRange(product_ids) \cap DOMAIN wQuant
                               ELSE {}
         /\ cache' = [cache EXCEPT !.existing_rules = [q \in existing_quants' |-> <<>>]]
    /\ pc' = "prepare"
    /\ UNCHANGED <<product_ids, product_id_to_code, product_id_to_avail,
                   quants_to_update, quants_to_create, idx, results, wQuant>>
    /\ PassFrame

(***************************************************************************)
(* _preload_existing_quants, main.py:1239-1262, called at main.py:1317:    *)
(* one search_read on the bare proxy; any exception gives {}.              *)
(***************************************************************************)
PreloadExistingQuants ==
    /\ pc = "quants"
    /\ \E script \in {<<Answered>>, <<RateLimited>>, <<Rejected>>} :
         LET r == ModelsExecuteKw(script) IN
         /\ rpc' = Append(rpc, Request("stock.quant", "search_read", <<>>, FALSE, r))
         /\ existing_quants' = IF r.ok THEN SeqRange(product_ids) \cap DOMAIN wQuant
                               ELSE {}
    /\ pc' = "prepare"
    /\ UNCHANGED <<cache, product_ids, product_id_to_code, product_id_to_avail,
                   quants_to_update, quants_to_create, idx, results, wQuant>>
    /\ PassFrame

(***************************************************************************)
(* One iteration of the second loop, main.py:1323-1338.  ops.ok turns      *)
(* FALSE when int() raises; the exception leaves the loop.                 *)
(***************************************************************************)
PrepareStep(ops, product_id) ==
    LET scraping_code == product_id_to_code[product_id]
        disponibilidad == CoerceAvail(product_id_to_avail[product_id])
        entry == [prod |-> product_id, qty |-> StockQuantity(disponibilidad.val),
                  code |-> scraping_code]
    IN  IF ~disponibilidad.ok
        THEN [ops EXCEPT !.ok = FALSE, !.error = disponibilidad.err]
        ELSE IF product_id \in existing_quants
        THEN [ops EXCEPT !.update = Append(@, entry)]
        ELSE [ops EXCEPT !.create = Append(@, entry)]

RECURSIVE PrepareFrom(_, _)
PrepareFrom(ops, i) ==
    IF i > Len(product_ids) \/ ~ops.ok THEN ops
    ELSE PrepareFrom(PrepareStep(ops, product_ids[i]), i + 1)

\* main.py:1397-1400: {'code': 'batch', 'error': str(e)}
BatchError(e) == [code |-> BatchCode, error |-> e]

\* Where the pass goes once the operations are prepared or a loop is over.
AfterUpdates(create) == IF create = <<>> THEN "done" ELSE "create"

(***************************************************************************)
(* main.py:1319-1338 and the outer handler main.py:1397-1400: an exception *)
(* raised while the operations are prepared ends the batch with one        *)
(* "batch" error.                                                          *)
(***************************************************************************)
PrepareOperations ==
    /\ pc = "prepare"
    /\ LET ops == PrepareFrom([ok |-> TRUE, error |-> <<>>, update |-> <<>>,
                                create |-> <<>>], 1) IN
       IF ~ops.ok
       THEN /\ results' = [results EXCEPT !.errors = Append(@, BatchError(ops.error))]
            /\ pc' = "done"
            /\ UNCHANGED <<quants_to_update, quants_to_create, idx>>
       ELSE /\ quants_to_update' = ops.update
            /\ quants_to_create' = ops.create
            /\ idx' = 1
            /\ pc' = IF ops.update # <<>> THEN "update" ELSE AfterUpdates(ops.create)
            /\ UNCHANGED results
    /\ UNCHANGED <<cache, product_ids, product_id_to_code, product_id_to_avail,
                   existing_quants, rpc, wQuant>>
    /\ PassFrame

\* How the remote end answers one write or create on the bare proxy.
WriteScripts == {<<Answered>>, <<RateLimited>>, <<Rejected>>}

\* The transport a stock write or create is sent through, main.py:1345,
\* 1368, 1380: self.models.execute_kw, not self.execute_kw.
StockCall(script) == ModelsExecuteKw(script)

RecordFailureDropped(res, code, r) == res

\* main.py:1351-1352, 1391-1392: the except clause of one write or create.
RecordFailure(res, code, r) ==
    [res EXCEPT !.errors = Append(@, [code |-> code, error |-> r.val])]

(***************************************************************************)
(* One iteration of the update loop, main.py:1343-1352: one write per      *)
(* existing quant; a failure is recorded for the item and the loop goes on.*)
(***************************************************************************)
WriteQuant ==
    /\ pc = "update"
    /\ \E script \in WriteScripts :
         LET e == quants_to_update[idx]
             r == StockCall(script)
         IN /\ rpc' = Append(rpc, Request("stock.quant", "write",
                                          <<[prod |-> e.prod, qty |-> e.qty]>>, FALSE, r))
            /\ results' = IF r.ok THEN [results EXCEPT !.updated = Append(@, e.code)]
                          ELSE RecordFailure(results, e.code, r)
            /\ wQuant' = IF r.ok THEN (e.prod :> e.qty) @@ wQuant ELSE wQuant
    /\ idx' = IF idx < Len(quants_to_update) THEN idx + 1 ELSE 1
    /\ pc' = IF idx < Len(quants_to_update) THEN "update" ELSE AfterUpdates(quants_to_create)
    /\ UNCHANGED <<cache, product_ids, product_id_to_code, product_id_to_avail,
                   existing_quants, quants_to_update, quants_to_create>>
    /\ PassFrame

RecsOf(entries) == [i \in 1..Len(entries) |-> [prod |-> entries[i].prod, qty |-> entries[i].qty]]

CodesOf(entries) == [i \in 1..Len(entries) |-> entries[i].code]

\* The stock records after the creates of entries[i..]: each record holds
\* the quantity of the last entry created for its product.
ApplyCreates(q, entries, i) ==
    LET created == { entries[k].prod : k \in i..Len(entries) }
        last(p) == CHOOSE k \in i..Len(entries) :
                      /\ entries[k].prod = p
                      /\ \A j \in (k + 1)..Len(entries) : entries[j].prod # p
    IN [p \in created \cup DOMAIN q |->
           IF p \in created THEN entries[last(p)].qty ELSE q[p]]

AfterBulkFailureGiveUp == "done"

\* main.py:1375-1378: a failed bulk create falls back to single creates.
AfterBulkFailure == "fallback"

(***************************************************************************)
(* main.py:1355-1376: one create call carrying every record to create.     *)
(***************************************************************************)
CreateQuantsBulk ==
    /\ pc = "create"
    /\ \E script \in WriteScripts :
         LET r == StockCall(script) IN
         /\ rpc' = Append(rpc, Request("stock.quant", "create",
                                       RecsOf(quants_to_create), FALSE, r))
         /\ results' = IF r.ok
                       THEN [results EXCEPT !.created = @ \o CodesOf(quants_to_create)]
                       ELSE results
         /\ wQuant' = IF r.ok THEN ApplyCreates(wQuant, quants_to_create, 1) ELSE wQuant
         /\ pc' = IF r.ok THEN "done" ELSE AfterBulkFailure
    /\ idx' = 1
    /\ UNCHANGED <<cache, product_ids, product_id_to_code, product_id_to_avail,
                   existing_quants, quants_to_update, quants_to_create>>
    /\ PassFrame

(***************************************************************************)
(* One iteration of the fallback loop, main.py:1378-1392.                  *)
(***************************************************************************)
CreateQuantSingle ==
    /\ pc = "fallback"
    /\ \E script \in WriteScripts :
         LET e == quants_to_create[idx]
             r == StockCall(script)
         IN /\ rpc' = Append(rpc, Request("stock.quant", "create",
                                          <<[prod |-> e.prod, qty |-> e.qty]>>, FALSE, r))
            /\ results' = IF r.ok THEN [results EXCEPT !.created = Append(@, e.code)]
                          ELSE RecordFailure(results, e.code, r)
            /\ wQuant' = IF r.ok THEN (e.prod :> e.qty) @@ wQuant ELSE wQuant
    /\ idx' = IF idx < Len(quants_to_create) THEN idx + 1 ELSE 1
    /\ pc' = IF idx < Len(quants_to_create) THEN "fallback" ELSE "done"
    /\ UNCHANGED <<cache, product_ids, product_id_to_code, product_id_to_avail,
                   existing_quants, quants_to_update, quants_to_create>>
    /\ PassFrame

MaxRules == 2
RuleIds == 1..MaxRules

\* search_read on stock.warehouse.orderpoint: the ids of the rules that
\* satisfy the domain, in id order.
RECURSIVE RulesMatching(_, _, _)
RulesMatching(byTemplate, keys, id) ==
    IF id > MaxRules THEN <<>>
    ELSE LET hit == /\ id \in DOMAIN wRules
                    /\ IF byTemplate THEN TemplateOf(wRules[id]) \in keys
                       ELSE wRules[id] \in keys
         IN (IF hit THEN <<id>> ELSE <<>>) \o RulesMatching(byTemplate, keys, id + 1)

\* main.py:2572-2577: rules grouped by their template, in list order.
RECURSIVE GroupByTemplate(_, _, _)
GroupByTemplate(all_rules, i, acc) ==
    IF i > Len(all_rules) THEN acc
    ELSE LET t == TemplateOf(wRules[all_rules[i]])
             old == IF t \in DOMAIN acc THEN acc[t] ELSE <<>>
         IN GroupByTemplate(all_rules, i + 1, (t :> Append(old, all_rules[i])) @@ acc)

CachedProducts == { cache.product_info[c].product_id : c \in DOMAIN cache.product_info }

(***************************************************************************)
(* _preload_replenishment_rules, main.py:2537-2584: nothing when           *)
(* product_info is empty; else one search_read by template ids and one by  *)
(* product ids, both through execute_kw; an exception in either gives {}.  *)
(* Its call, step 5 of the cache build (main.py:2641-2643), is commented   *)
(* out: a pass does not run it, and it is no step of Spec.                 *)
(***************************************************************************)
PreloadReplenishmentRules ==
    /\ pc = "batch"
    /\ IF DOMAIN cache.product_info = {}
       THEN UNCHANGED <<cache, rpc>>
       ELSE \E s1 \in RemoteScripts :
            \E s2 \in RemoteScripts :
              LET r1 == ExecuteKw(s1)
                  r2 == ExecuteKw(s2)
                  q1 == Request("stock.warehouse.orderpoint", "search_read", <<>>, TRUE, r1)
                  q2 == Request("stock.warehouse.orderpoint", "search_read", <<>>, TRUE, r2)
                  all_rules == RulesMatching(TRUE, CachedTemplates, 1)
                                 \o RulesMatching(FALSE, CachedProducts, 1)
              IN /\ ~r1.ok => s2 = s1
                 /\ rpc' = IF r1.ok THEN rpc \o <<q1, q2>> ELSE Append(rpc, q1)
                 /\ cache' = [cache EXCEPT !.existing_rules =
                                IF r1.ok /\ r2.ok
                                THEN GroupByTemplate(all_rules, 1, EmptyFn)
                                ELSE EmptyFn]
    /\ pc' = "rules_done"
    /\ UNCHANGED <<product_ids, product_id_to_code, product_id_to_avail,
                   existing_quants, quants_to_update, quants_to_create, idx,
                   results, wQuant>>
    /\ PassFrame

(***************************************************************************)
(* The three reference-data preloads of PrAutoParteScraper, each called    *)
(* once: product information, kit flags and existing rules, in the order   *)
(* of the cache build, for a connected scraper.  Availability and stock    *)
(* play no part here.                                                      *)
(***************************************************************************)
PreloadInputs ==
    \E n \in 0..MaxItems :
     /\ items = [i \in 1..n |-> [code |-> CodeNames[i], avail |-> "0"]]
     /\ wProd \in [Codes -> 0..MaxProducts]
     /\ \A i \in (n + 1)..MaxItems : wProd[CodeNames[i]] = 0
     /\ wStorable = ReferencedProducts(n, wProd)
     /\ wBom \in SUBSET { TemplateOf(p) : p \in ReferencedProducts(n, wProd) }
     /\ wQuant = EmptyFn
     /\ \E R \in SUBSET RuleIds : wRules \in [R -> Products]

InitPreload ==
    /\ RetryInit
    /\ PreloadInputs
    /\ pc = "prodinfo"
    /\ cache = [EmptyCache EXCEPT !.loc = LocId]
    /\ PassLocals
    /\ RunFirst
    /\ NormIdle
    /\ MatchIdle
    /\ LookupIdle
    /\ OthersIdle

NextPreload ==
    \/ PreloadProductInformation
    \/ PreloadKitsInformation
    \/ PreloadReplenishmentRules

SpecPreload == InitPreload /\ [][NextPreload]_vars

Next ==
    \/ Connect
    \/ ResolveLocation
    \/ PreloadProductInformation
    \/ PreloadKitsInformation
    \/ PartitionProducts
    \/ PreloadExistingQuants
    \/ PrepareOperations
    \/ WriteQuant
    \/ CreateQuantsBulk
    \/ CreateQuantSingle

Spec == Init /\ [][Next]_vars

(***************************************************************************)
(* The batch on its own, over many items: _batch_update_stock_quants from  *)
(* the existing-quant lookup (main.py:1317) to the bulk create of          *)
(* main.py:1355-1376, for up to MaxCreates matched items.  The code of     *)
(* item i is str(i); each is cached as its own storable product that is no *)
(* kit and has no stock record, with an availability of 0, so that the     *)
(* first loop (main.py:1286-1309) has kept every one of them.  The         *)
(* fallback loop that follows a failed bulk create is followed in Spec.    *)
(***************************************************************************)
MaxCreates == 101

InitBulkCreate ==
    /\ RetryInit
    /\ \E n \in 1..MaxCreates :
         /\ items = [i \in 1..n |-> [code |-> ToString(i), avail |-> "0"]]
         /\ wProd = [c \in {ToString(i) : i \in 1..n} |->
                        CHOOSE i \in 1..n : ToString(i) = c]
         /\ wStorable = 1..n
         /\ cache = [EmptyCache EXCEPT
                        !.loc = LocId,
                        !.product_info =
                           [c \in {ToString(i) : i \in 1..n} |->
                               [product_id |-> CHOOSE i \in 1..n : ToString(i) = c,
                                template_id |->
                                    TemplateOf(CHOOSE i \in 1..n : ToString(i) = c),
                                is_storable |-> TRUE]]]
         /\ product_ids = [i \in 1..n |-> i]
         /\ product_id_to_code = [p \in 1..n |-> ToString(p)]
         /\ product_id_to_avail = [p \in 1..n |-> "0"]
    /\ wBom = {}
    /\ wQuant = EmptyFn
    /\ wRules = EmptyFn
    /\ pc = "quants"
    /\ existing_quants = {}
    /\ quants_to_update = <<>>
    /\ quants_to_create = <<>>
    /\ idx = 0
    /\ results = EmptyResults
    /\ rpc = <<>>
    /\ RunFirst
    /\ NormIdle
    /\ MatchIdle
    /\ LookupIdle
    /\ OthersIdle

NextBulkCreate ==
    \/ PreloadExistingQuants
    \/ PrepareOperations
    \/ CreateQuantsBulk

SpecBulkCreate == InitBulkCreate /\ [][NextBulkCreate]_vars

(***************************************************************************)
(* The per-product updates of OdooConnector, update_matched_product and    *)
(* update_matched_product_optimized (main.py:248-349).  They are public;   *)
(* inside src/ only _send_to_odoo and _send_to_odoo_optimized call them,   *)
(* and nothing calls those: a pass never runs them.  Every remote call     *)
(* they make goes through the bare proxy.  They test the kit and never     *)
(* is_storable.                                                            *)
(***************************************************************************)
\* main.py:432: the Odoo message the handler of _update_scraping_stock
\* takes for the refusal of a kit.
KitMessage == "Debe actualizar la cantidad de componentes"

\* How the remote end answers the write or create of the stock record of
\* product p: as any write or create, or, for a kit, with KitMessage.
StoreScripts(p) ==
    WriteScripts \cup (IF TemplateOf(p) \in wBom THEN {<<Err(<<KitMessage>>)>>} ELSE {})

\* The dict returned by _update_scraping_stock(_optimized).
StockResult(success, quantity, error, is_kit) ==
    [success |-> success, quantity |-> quantity, error |-> error, is_kit |-> is_kit]

NoStockResult == StockResult(FALSE, 0, <<>>, FALSE)

KitResult ==
    StockResult(FALSE, 0,
                <<"Producto tipo kit - no se puede actualizar stock directamente">>, TRUE)

\* main.py:1107-1109: the handler of _update_scraping_stock_optimized.
StockFailure(msg) == StockResult(FALSE, 0, msg, FALSE)

\* main.py:430-437: the handler of _update_scraping_stock.
StockFailureOrKit(msg) ==
    IF Contains(msg, KitMessage)
    THEN StockResult(FALSE, 0,
                     <<"Producto tipo kit - debe actualizar stock de componentes">>, TRUE)
    ELSE StockFailure(msg)

(***************************************************************************)
(* main.py:399-428 and main.py:1073-1105: the search_read of the stock     *)
(* record of product p at the location, then one write when there is a     *)
(* record and one create when there is none; st.rpc holds the requests     *)
(* sent so far.  An exception of either call ends in the handler of the    *)
(* function: that of _update_scraping_stock when `plain` holds, of         *)
(* _update_scraping_stock_optimized otherwise.                             *)
(***************************************************************************)
UpdateOrCreateQuant(st, p, qty, search, store, plain) ==
    LET failed(msg) == IF plain THEN StockFailureOrKit(msg) ELSE StockFailure(msg)
        r1 == ModelsExecuteKw(search)
        q1 == Request("stock.quant", "search_read", <<>>, FALSE, r1)
        r2 == ModelsExecuteKw(store)
        q2 == Request("stock.quant", IF p \in DOMAIN wQuant THEN "write" ELSE "create",
                      <<[prod |-> p, qty |-> qty]>>, FALSE, r2)
    IN  IF ~r1.ok
        THEN [st EXCEPT !.rpc = Append(@, q1), !.ret = failed(r1.val)]
        ELSE IF ~r2.ok
        THEN [st EXCEPT !.rpc = @ \o <<q1, q2>>, !.ret = failed(r2.val)]
        ELSE [st EXCEPT !.rpc = @ \o <<q1, q2>>,
                        !.quant = (p :> qty) @@ @,
                        !.ret = StockResult(TRUE, qty, <<>>, FALSE)]

(***************************************************************************)
(* _update_scraping_stock_optimized, main.py:1047-1109: the read of the    *)
(* product, the kit test on the cached kits_info, int(disponibilidad),     *)
(* then the stock record.  s gives the answer to the read and to the       *)
(* search of the stock record, store the answer to its write or create.    *)
(***************************************************************************)
UpdateScrapingStockOptimized(p, avail, kits_info, s, store) ==
    LET r1 == ModelsExecuteKw(s[1])
        st == [rpc |-> <<Request("product.product", "read", <<>>, FALSE, r1)>>,
               quant |-> wQuant, ret |-> NoStockResult]
        disponibilidad == CoerceAvail(avail)
    IN  IF ~r1.ok THEN [st EXCEPT !.ret = StockFailure(r1.val)]
        ELSE IF TemplateOf(p) \in kits_info THEN [st EXCEPT !.ret = KitResult]
        ELSE IF ~disponibilidad.ok THEN [st EXCEPT !.ret = StockFailure(disponibilidad.err)]
        ELSE UpdateOrCreateQuant(st, p, StockQuantity(disponibilidad.val),
                                 s[2], store, FALSE)

(***************************************************************************)
(* _update_scraping_stock, main.py:351-437: the location lookups (n of     *)
(* them, resolving to loc), int(disponibilidad), the kit test (a read of   *)
(* the product and a search_read on mrp.bom; an exception of either is     *)
(* logged and the kit test is skipped), then the stock record.  s gives    *)
(* the answer to the two calls of the kit test and to the search of the    *)
(* stock record, store the answer to its write or create.                  *)
(***************************************************************************)
UpdateScrapingStock(p, avail, lookups, loc, s, store) ==
    LET st == [rpc |-> lookups, quant |-> wQuant, ret |-> NoStockResult]
        disponibilidad == CoerceAvail(avail)
        r1 == ModelsExecuteKw(s[1])
        r2 == ModelsExecuteKw(s[2])
        q1 == Request("product.product", "read", <<>>, FALSE, r1)
        q2 == Request("mrp.bom", "search_read", <<>>, FALSE, r2)
        checked == [st EXCEPT !.rpc = @ \o (IF r1.ok THEN <<q1, q2>> ELSE <<q1>>)]
    IN  IF loc = None
        THEN [st EXCEPT !.ret =
                 StockFailure(<<"Ubicación TODO/Stock/StockSCRAP no encontrada">>)]
        ELSE IF ~disponibilidad.ok
        THEN [st EXCEPT !.ret = StockFailureOrKit(disponibilidad.err)]
        ELSE IF r1.ok /\ r2.ok /\ TemplateOf(p) \in wBom
        THEN [checked EXCEPT !.ret = KitResult]
        ELSE UpdateOrCreateQuant(checked, p, StockQuantity(disponibilidad.val),
                                 s[3], store, TRUE)

(***************************************************************************)
(* search_product_by_code, main.py:201-246: a search_read on the exact     *)
(* code (wProd) and, when it finds nothing, a search_read of every product *)
(* with a code, compared after normalization: `by_norm` is the product  *)
(* that comparison finds (0: none).  An exception gives None (id 0).       *)
(***************************************************************************)
SearchProductByCode(code, by_norm, s) ==
    LET r1 == ModelsExecuteKw(s[1])
        r2 == ModelsExecuteKw(s[2])
        q1 == Request("product.product", "search_read", <<>>, FALSE, r1)
        q2 == Request("product.product", "search_read", <<>>, FALSE, r2)
    IN  IF ~r1.ok THEN [rpc |-> <<q1>>, id |-> 0]
        ELSE IF wProd[code] # 0 THEN [rpc |-> <<q1>>, id |-> wProd[code]]
        ELSE IF ~r2.ok THEN [rpc |-> <<q1, q2>>, id |-> 0]
        ELSE [rpc |-> <<q1, q2>>, id |-> by_norm]

\* The dict returned by update_matched_product(_optimized).
UpdateResult(success, error, stock_updated) ==
    [success |-> success, error |-> error, stock_updated |-> stock_updated]

(***************************************************************************)
(* One call with one product_data: a code that resolves to a product of    *)
(* the registry or to none, each product the call can reach storable or    *)
(* not, a kit or not, with or without a stock record; cached_data as the   *)
(* cache build leaves it, each preload having succeeded or failed; the     *)
(* connector connected (pc = "single") or not (pc = "offline").            *)
(***************************************************************************)
\* The products a call can reach: the one the exact code resolves to, or,
\* without one, any product of the registry (found after normalization).
SingleProducts(prod) ==
    IF prod[CodeNames[1]] # 0 THEN {prod[CodeNames[1]]} ELSE Products

InitSingle ==
    /\ RetryInit
    /\ \E av \in AvailValues : items = <<[code |-> CodeNames[1], avail |-> av]>>
    /\ wProd \in [Codes -> 0..MaxProducts]
    /\ \A i \in 2..MaxItems : wProd[CodeNames[i]] = 0
    /\ wStorable \in SUBSET SingleProducts(wProd)
    /\ wBom \in SUBSET { TemplateOf(p) : p \in SingleProducts(wProd) }
    /\ \E Q \in SUBSET SingleProducts(wProd) : wQuant = [p \in Q |-> 0]
    /\ wRules = EmptyFn
    /\ pc \in {"single", "offline"}
    /\ \E info_ok \in BOOLEAN, kits_ok \in BOOLEAN :
         LET info == IF info_ok /\ wProd[CodeNames[1]] # 0
                     THEN (CodeNames[1] :> ProductInfoOf(wProd[CodeNames[1]]))
                     ELSE EmptyFn
             kits == IF kits_ok
                     THEN { info[c].template_id : c \in DOMAIN info } \cap wBom
                     ELSE {}
         IN cache = [EmptyCache EXCEPT !.loc = LocId, !.product_info = info,
                                       !.kits_info = kits]
    /\ PassLocals
    /\ RunFirst
    /\ NormIdle
    /\ MatchIdle
    /\ LookupIdle
    /\ OthersIdle

NotConnected == UpdateResult(FALSE, <<"No conectado a Odoo">>, NoStockResult)

(***************************************************************************)
(* update_matched_product, main.py:248-286.                                *)
(***************************************************************************)
UpdateMatchedProduct ==
    /\ pc \in {"single", "offline"}
    /\ IF pc = "offline"
       THEN /\ results' = NotConnected
            /\ UNCHANGED <<rpc, wQuant>>
       ELSE \E by_norm \in (IF wProd[items[1].code] # 0 THEN {0} ELSE 0..MaxProducts) :
            \E found \in 0..3 :
            \E raised \in 0..(IF found < 3 THEN found + 1 ELSE 3) :
            \E s1 \in [1..2 -> WriteScripts] :
            \E s2 \in [1..3 -> WriteScripts] :
            \E store \in StoreScripts(SearchProductByCode(items[1].code, by_norm, s1).id) :
              LET product_data == items[1]
                  existing == SearchProductByCode(product_data.code, by_norm, s1)
                  issued == IF found < 3 THEN found + 1 ELSE 3
                  n == IF raised \in 1..issued THEN raised ELSE issued
                  loc == IF found = 3 /\ raised = 0 THEN LocId ELSE None
                  st == UpdateScrapingStock(existing.id, product_data.avail,
                                            LocationLookups(n, raised), loc, s2,
                                            store)
              IN IF existing.id = 0
                    THEN /\ rpc' = rpc \o existing.rpc
                         /\ results' = UpdateResult(FALSE,
                                          <<"Producto no encontrado en Odoo">>,
                                          NoStockResult)
                         /\ UNCHANGED wQuant
                    ELSE /\ rpc' = rpc \o existing.rpc \o st.rpc
                         /\ results' = UpdateResult(TRUE, <<>>, st.ret)
                         /\ wQuant' = st.quant
    /\ pc' = "returned"
    /\ UNCHANGED <<cache, product_ids, product_id_to_code, product_id_to_avail,
                   existing_quants, quants_to_update, quants_to_create, idx>>
    /\ PassFrame

(***************************************************************************)
(* update_matched_product_optimized, main.py:288-349, with the cached_data *)
(* of the cache build.                                                     *)
(***************************************************************************)
UpdateMatchedProductOptimized ==
    /\ pc \in {"single", "offline"}
    /\ LET product_data == items[1] IN
       IF pc = "offline"
       THEN /\ results' = NotConnected
            /\ UNCHANGED <<rpc, wQuant>>
       ELSE IF product_data.code \notin DOMAIN cache.product_info
       THEN /\ results' = UpdateResult(FALSE,
                             <<"Producto no encontrado en datos cacheados">>,
                             NoStockResult)
            /\ UNCHANGED <<rpc, wQuant>>
       ELSE \E s \in [1..2 -> WriteScripts] :
            \E store \in StoreScripts(cache.product_info[product_data.code].product_id) :
              LET product_info == cache.product_info[product_data.code]
                  st == UpdateScrapingStockOptimized(product_info.product_id,
                                                     product_data.avail,
                                                     cache.kits_info, s, store)
              IN /\ rpc' = rpc \o st.rpc
                 /\ results' = UpdateResult(TRUE, <<>>, st.ret)
                 /\ wQuant' = st.quant
    /\ pc' = "returned"
    /\ UNCHANGED <<cache, product_ids, product_id_to_code, product_id_to_avail,
                   existing_quants, quants_to_update, quants_to_create, idx>>
    /\ PassFrame

NextSingle ==
    \/ UpdateMatchedProduct
    \/ UpdateMatchedProductOptimized

SpecSingle == InitSingle /\ [][NextSingle]_vars

(***************************************************************************)
(* The normalizer on its own: normalize_code applied to an argument, then  *)
(* to its own result, and to a code one edit away from the argument.       *)
(***************************************************************************)
InitNormalize ==
    /\ RetryInit
    /\ PassIdle
    /\ RunFirst
    /\ MatchIdle
    /\ LookupIdle
    /\ OthersIdle
    /\ code_arg \in CodeInputs
    /\ normalized = <<>>
    /\ variant = NoVariant

NormFrame == UNCHANGED <<retryVars, worldVars, passVars, runVars, matchVars, lookupVars, searchVars, scrapeVars, poVars>>

\* One call of normalize_code: first on the argument, then on the result.
NormalizeCode ==
    /\ Len(normalized) < 2
    /\ normalized' = Append(normalized,
                            normalize_code(IF normalized = <<>> THEN code_arg
                                           ELSE PyStr(normalized[Len(normalized)])))
    /\ UNCHANGED <<code_arg, variant>>
    /\ NormFrame

Letters == {"a", "A"}
SwapCase(c) == IF c = "a" THEN "A" ELSE "a"
Punctuation == {".", "-", "_", "/", "(", ")", "[", "]"}
Ignored == Whitespace \cup Punctuation

InsertAt(s, i, c) == SubSeq(s, 1, i) \o <<c>> \o SubSeq(s, i + 1, Len(s))
DeleteAt(s, i) == SubSeq(s, 1, i - 1) \o SubSeq(s, i + 1, Len(s))

\* The codes one edit away from s: the case of one letter changed, or one
\* whitespace or punctuation character inserted or deleted.
Variants(s) ==
    { [s EXCEPT ![i] = SwapCase(s[i])] : i \in { j \in 1..Len(s) : s[j] \in Letters } }
      \cup { InsertAt(s, i, c) : i \in 0..Len(s), c \in Ignored }
      \cup { DeleteAt(s, i) : i \in { j \in 1..Len(s) : s[j] \in Ignored } }

\* normalize_code called on a code that differs from the argument by one edit.
NormalizeVariant ==
    /\ code_arg.t = "str"
    /\ Len(normalized) = 2
    /\ ~variant.set
    /\ \E y \in Variants(code_arg.s) :
         variant' = [set |-> TRUE, code |-> y, key |-> normalize_code(PyStr(y))]
    /\ UNCHANGED <<code_arg, normalized>>
    /\ NormFrame

NextNormalize == NormalizeCode \/ NormalizeVariant

SpecNormalize == InitNormalize /\ [][NextNormalize]_vars

(***************************************************************************)
(* The matcher: _load_matched_codes, main.py:1853-1915 (match_products of  *)
(* bluecar_scraper_test.py:632-675 is the same code on other columns).     *)
(* The two columns are given after dropna, in row order; the codes are     *)
(* chosen so that several share the key A1, one has another key and one    *)
(* has the empty key.                                                      *)
(***************************************************************************)
MaxRows == 2

MatchCodes ==
    { <<"A", "1">>, <<"a", "1">>, <<"a", "-", "1">>, <<" ", "A", "1">>, <<"1">>, <<"-">> }

Columns == UNION { [1..n -> MatchCodes] : n \in 0..MaxRows }

InitMatch ==
    /\ RetryInit
    /\ PassIdle
    /\ RunFirst
    /\ NormIdle
    /\ LookupIdle
    /\ OthersIdle
    /\ df_productos \in Columns
    /\ df_articulos \in Columns
    /\ codigos_productos = {}
    /\ codigos_productos_norm = EmptyFn
    /\ codigos_articulos = {}
    /\ codigos_articulos_norm = EmptyFn
    /\ scraping_to_odoo_code = EmptyFn
    /\ matched_codes_exact = {}
    /\ matched_codes_normalized = {}
    /\ matched_codes = {}
    /\ mpc = "productos"

MatchFrame == UNCHANGED <<retryVars, worldVars, passVars, runVars, normVars, lookupVars,
                          searchVars, scrapeVars, poVars,
                          df_productos, df_articulos>>

NormAssignFirst(map, k, v) == IF k \in DOMAIN map THEN map ELSE (k :> v) @@ map

\* main.py:1864, 1885: codigos_*_norm[normalized_code] = original_code
NormAssign(map, k, v) == (k :> v) @@ map

\* One row of a column, main.py:1859-1864 and 1880-1885.  The scraped
\* column also tests original_code.
LoadStep(st, c, testOriginal) ==
    LET original_code == Strip(c)
        normalized_code == normalize_code(PyStr(c))
    IN  IF normalized_code # <<>> /\ (testOriginal => original_code # <<>>)
        THEN [codes |-> st.codes \cup {original_code},
              norm |-> NormAssign(st.norm, normalized_code, original_code)]
        ELSE st

RECURSIVE LoadFrom(_, _, _, _)
LoadFrom(st, column, i, testOriginal) ==
    IF i > Len(column) THEN st
    ELSE LoadFrom(LoadStep(st, column[i], testOriginal), column, i + 1, testOriginal)

\* main.py:1853-1864
LoadProductCodes ==
    /\ mpc = "productos"
    /\ LET st == LoadFrom([codes |-> {}, norm |-> EmptyFn], df_productos, 1, FALSE) IN
       /\ codigos_productos' = st.codes
       /\ codigos_productos_norm' = st.norm
    /\ mpc' = "articulos"
    /\ UNCHANGED <<codigos_articulos, codigos_articulos_norm, scraping_to_odoo_code,
                   matched_codes_exact, matched_codes_normalized, matched_codes>>
    /\ MatchFrame

\* main.py:1874-1885
LoadArticleCodes ==
    /\ mpc = "articulos"
    /\ LET st == LoadFrom([codes |-> {}, norm |-> EmptyFn], df_articulos, 1, TRUE) IN
       /\ codigos_articulos' = st.codes
       /\ codigos_articulos_norm' = st.norm
    /\ mpc' = "exact"
    /\ UNCHANGED <<codigos_productos, codigos_productos_norm, scraping_to_odoo_code,
                   matched_codes_exact, matched_codes_normalized, matched_codes>>
    /\ MatchFrame

\* main.py:1887-1892
MatchExact ==
    /\ mpc = "exact"
    /\ LET exact == codigos_productos \cap codigos_articulos IN
       /\ matched_codes_exact' = exact
       /\ scraping_to_odoo_code' = [c \in exact |-> c] @@ scraping_to_odoo_code
    /\ mpc' = "normalized"
    /\ UNCHANGED <<codigos_productos, codigos_productos_norm, codigos_articulos,
                   codigos_articulos_norm, matched_codes_normalized, matched_codes>>
    /\ MatchFrame

\* main.py:1896-1903: the loop over the keys of codigos_productos_norm.
RECURSIVE NormalizedLoop(_, _)
NormalizedLoop(st, keys) ==
    IF keys = {} THEN st
    ELSE LET norm_codigo == CHOOSE k \in keys : TRUE
             scraping_code == codigos_articulos_norm[norm_codigo]
             odoo_code == codigos_productos_norm[norm_codigo]
             next == IF norm_codigo \in DOMAIN codigos_articulos_norm
                     THEN [matched |-> st.matched \cup {scraping_code},
                           map |-> (scraping_code :> odoo_code) @@ st.map]
                     ELSE st
         IN NormalizedLoop(next, keys \ {norm_codigo})

CombineNormalizedOnly(exact, norm_matches) == norm_matches

\* main.py:1906
Combine(exact, norm_matches) == exact \cup norm_matches

\* main.py:1894-1915
MatchNormalized ==
    /\ mpc = "normalized"
    /\ LET st == NormalizedLoop([matched |-> {}, map |-> scraping_to_odoo_code],
                                DOMAIN codigos_productos_norm)
       IN /\ matched_codes_normalized' = st.matched
          /\ scraping_to_odoo_code' = st.map
          /\ matched_codes' = Combine(matched_codes_exact, st.matched)
    /\ mpc' = "done"
    /\ UNCHANGED <<codigos_productos, codigos_productos_norm, codigos_articulos,
                   codigos_articulos_norm, matched_codes_exact>>
    /\ MatchFrame

NextMatch ==
    \/ LoadProductCodes
    \/ LoadArticleCodes
    \/ MatchExact
    \/ MatchNormalized

SpecMatch == InitMatch /\ [][NextMatch]_vars

(***************************************************************************)
(* Parallel supplier-catalog lookups: the worker threads of the pool of    *)
(* SVScraper._scrape_all_codes_parallel (sv_scraper.py:446-507) and of     *)
(* SVScraperV2.scrape_all_products (sv_scraper_v2.py:394-458), after a     *)
(* successful login.  A session object is identified by a number: 0 is the *)
(* session built at login, the others are the requests.Session() objects   *)
(* created later, in creation order.                                       *)
(***************************************************************************)
\* What one GET can give: a status other than 200, a JSON body that is not
\* a list, an empty list, a list with or without a product whose code
\* matches, a Timeout, another RequestException, any other exception.
ResponseKinds ==
    {"status", "not_list", "empty", "match", "no_match", "timeout", "request_exception",
     "exception"}

\* The position of one call of SVScraperV2.search_product in its loop:
\* the value of `attempt`, empty_retries_left, and "running" or what the
\* call returned.
SearchState(attempt, left, ret) ==
    [attempt |-> attempt, empty_retries_left |-> left, ret |-> ret]

\* `continue` in the body of the loop: the next value of range(retries + 1),
\* or the `return None` after the loop when the range is exhausted.
ContinueLoop(sp, r) ==
    IF sp.attempt < r
    THEN [sp EXCEPT !.attempt = @ + 1, !.ret = "running"]
    ELSE [sp EXCEPT !.ret = "None"]

\* sv_scraper_v2.py:220-224, 259-270: retry while attempt < retries.
RetryOrGiveUp(sp, r) ==
    IF sp.attempt < r THEN ContinueLoop(sp, r)
    ELSE [sp EXCEPT !.ret = "None"]

ReturnFrom(sp, value) == [sp EXCEPT !.ret = value]

\* One iteration of the loop of search_product, sv_scraper_v2.py:215-273,
\* from the answer of its GET on.
AfterResponse(sp, r, response) ==
    CASE response \in {"status", "timeout", "request_exception"} -> RetryOrGiveUp(sp, r)
      [] response \in {"not_list", "exception", "no_match"} -> ReturnFrom(sp, "None")
      [] response = "match" -> ReturnFrom(sp, "product")
      [] response = "empty" ->
            IF sp.empty_retries_left > 0
            THEN ContinueLoop([sp EXCEPT !.empty_retries_left = @ - 1], r)
            ELSE ReturnFrom(sp, "None")

MaxWorkers == 2
MaxLookups == 3

Threads == 1..MaxWorkers
LoginSession == 0

\* search_product(code) as process_code calls it, sv_scraper_v2.py:199, 413.
default_retries == 3
default_retry_on_empty == 2

\* A worker thread: idle, or inside the lookup of `code`.  phase is
\* "called" on entry of search_product, "loop" before a GET, "waiting"
\* while the GET is under way; sp is the position in the loop of
\* SVScraperV2.search_product.
Worker(code, phase, sp) == [code |-> code, phase |-> phase, sp |-> sp]

IdleWorker == Worker(None, "idle", SearchState(0, 0, "None"))

InitLookup ==
    /\ RetryInit
    /\ PassIdle
    /\ RunFirst
    /\ NormIdle
    /\ MatchIdle
    /\ scraper \in {"SVScraper", "SVScraperV2"}
    /\ thread_session = EmptyFn
    /\ \E n \in 0..MaxLookups : pending = [i \in 1..n |-> CodeNames[i]]
    /\ task = [t \in Threads |-> IdleWorker]
    /\ http_requests = <<>>
    /\ OthersIdle

LookupFrame == UNCHANGED <<retryVars, worldVars, passVars, runVars, normVars, matchVars,
                           scraper, searchVars, scrapeVars, poVars>>

\* ThreadPoolExecutor: an idle worker thread takes the next submitted code
\* and enters search_product.
TakeCode ==
    /\ pending # <<>>
    /\ \E t \in Threads :
         /\ task[t].phase = "idle"
         /\ task' = [task EXCEPT ![t] =
                        Worker(Head(pending), "called",
                               SearchState(0, default_retry_on_empty, "running"))]
    /\ pending' = Tail(pending)
    /\ UNCHANGED <<thread_session, http_requests>>
    /\ LookupFrame

\* SVScraper.search_product, sv_scraper.py:242-251: the GET goes through
\* self.http_session, the one session built at login.
SearchProduct ==
    /\ scraper = "SVScraper"
    /\ \E t \in Threads :
         /\ task[t].phase = "called"
         /\ http_requests' = Append(http_requests,
                                    [thread |-> t, session |-> LoginSession,
                                     code |-> task[t].code])
         /\ task' = [task EXCEPT ![t].phase = "waiting"]
    /\ UNCHANGED <<thread_session, pending>>
    /\ LookupFrame

\* sv_scraper.py:253-273, 288-330: whatever the GET gives, the lookup sends
\* no other request and the task ends.
SearchProductReturns ==
    /\ scraper = "SVScraper"
    /\ \E t \in Threads :
         /\ task[t].phase = "waiting"
         /\ task' = [task EXCEPT ![t] = IdleWorker]
    /\ UNCHANGED <<thread_session, pending, http_requests>>
    /\ LookupFrame

\* SVScraperV2._get_thread_session, sv_scraper_v2.py:183-197, for thread t:
\* the session stored in the thread-local storage, created on first use.
GetThreadSession(t) ==
    IF t \in DOMAIN thread_session THEN thread_session
    ELSE (t :> (Cardinality(DOMAIN thread_session) + 1)) @@ thread_session

\* sv_scraper_v2.py:211: session = self._get_thread_session(), before the
\* loop of search_product.
SearchProductV2Session ==
    /\ scraper = "SVScraperV2"
    /\ \E t \in Threads :
         /\ task[t].phase = "called"
         /\ thread_session' = GetThreadSession(t)
         /\ task' = [task EXCEPT ![t].phase = "loop"]
    /\ UNCHANGED <<pending, http_requests>>
    /\ LookupFrame

\* SVScraperV2.search_product, sv_scraper_v2.py:215-218: session.get(url),
\* through the session of the calling thread; the thread waits for the
\* answer.
SearchProductV2 ==
    /\ scraper = "SVScraperV2"
    /\ \E t \in Threads :
         /\ task[t].phase = "loop"
         /\ http_requests' = Append(http_requests,
                                    [thread |-> t, session |-> thread_session[t],
                                     code |-> task[t].code])
         /\ task' = [task EXCEPT ![t].phase = "waiting"]
    /\ UNCHANGED <<thread_session, pending>>
    /\ LookupFrame

\* sv_scraper_v2.py:220-273: the answer of the GET sends the thread round
\* the loop again or ends search_product, and with it the task
\* (process_code, sv_scraper_v2.py:410-421).
SearchProductV2Answer ==
    /\ scraper = "SVScraperV2"
    /\ \E t \in Threads :
       \E response \in ResponseKinds :
         LET sp == AfterResponse(task[t].sp, default_retries, response) IN
         /\ task[t].phase = "waiting"
         /\ task' = [task EXCEPT ![t] = IF sp.ret = "running"
                                        THEN Worker(task[t].code, "loop", sp)
                                        ELSE IdleWorker]
    /\ UNCHANGED <<thread_session, pending, http_requests>>
    /\ LookupFrame

NextLookup ==
    \/ TakeCode
    \/ SearchProduct
    \/ SearchProductReturns
    \/ SearchProductV2Session
    \/ SearchProductV2
    \/ SearchProductV2Answer

SpecLookup == InitLookup /\ [][NextLookup]_vars

(***************************************************************************)
(* SVScraperV2.search_product, sv_scraper_v2.py:199-276, called after a    *)
(* login (session_cookies is not empty).  One action per iteration of the  *)
(* loop `for attempt in range(retries + 1)`: one GET and what the code     *)
(* does with its answer.                                                   *)
(***************************************************************************)
MaxRetriesArg == 3
MaxRetryOnEmpty == 2

InitSearch ==
    /\ RetryInit
    /\ PassIdle
    /\ RunFirst
    /\ NormIdle
    /\ MatchIdle
    /\ LookupIdle
    /\ ScrapeIdle
    /\ POIdle
    /\ retries \in 0..MaxRetriesArg
    /\ retry_on_empty \in 0..MaxRetryOnEmpty
    /\ sp_attempt = 0
    /\ empty_retries_left = retry_on_empty
    /\ responses = <<>>
    /\ sp_return = "running"

SearchFrame == UNCHANGED <<retryVars, worldVars, passVars, runVars, normVars, matchVars,
                           lookupVars, scrapeVars, poVars, retries, retry_on_empty>>

\* One iteration of the loop of search_product: the GET and what follows.
SearchAttempt ==
    /\ sp_return = "running"
    /\ \E response \in ResponseKinds :
         LET sp == AfterResponse(SearchState(sp_attempt, empty_retries_left, "running"),
                                 retries, response)
         IN /\ responses' = Append(responses, response)
            /\ sp_attempt' = sp.attempt
            /\ empty_retries_left' = sp.empty_retries_left
            /\ sp_return' = sp.ret
    /\ SearchFrame

NextSearch == SearchAttempt

SpecSearch == InitSearch /\ [][NextSearch]_vars

(***************************************************************************)
(* SVScraperV2.update_odoo_stock, sv_scraper_v2.py:542-684, with dry_run   *)
(* False.  product_codes (kept in cache.product_info) gives each Odoo code *)
(* its own product; stock_results (kept in items, in dict order) gives     *)
(* each code the stock found at the supplier.  Every call goes through the *)
(* bare proxy.                                                             *)
(***************************************************************************)
StockValues == {0, 1, 2}

\* The create chunk size, sv_scraper_v2.py:645.
batch_size == 100

EmptyCounts == [updated |-> 0, created |-> 0, skipped_non_storable |-> 0, errors |-> <<>>]

Orders(n) == { f \in [1..n -> 1..n] : \A i \in 1..n : \E j \in 1..n : f[j] = i }

SVInputs ==
    \E n \in 0..MaxItems :
     /\ wProd = [c \in Codes |-> IF \E i \in 1..n : CodeNames[i] = c
                                 THEN CHOOSE i \in 1..n : CodeNames[i] = c ELSE 0]
     /\ \E order \in Orders(n) :
        \E stock \in [1..n -> StockValues] :
          items = [i \in 1..n |-> [code |-> CodeNames[order[i]], avail |-> stock[i]]]
     /\ wStorable \in SUBSET (1..n)
     /\ wBom = {}
     /\ \E Q \in SUBSET (1..n) : wQuant \in [Q -> StockValues]
     /\ cache = [EmptyCache EXCEPT
                   !.loc = LocId,
                   !.product_info = [c \in { CodeNames[i] : i \in 1..n } |->
                                       ProductInfoOf(wProd[c])]]

InitSV ==
    /\ RetryInit
    /\ SVInputs
    /\ wRules = EmptyFn
    /\ pc = "sv_quants"
    /\ product_ids = <<>>
    /\ product_id_to_code = EmptyFn
    /\ product_id_to_avail = EmptyFn
    /\ existing_quants = EmptyFn
    /\ quants_to_update = <<>>
    /\ quants_to_create = <<>>
    /\ idx = 0
    /\ results = EmptyCounts
    /\ rpc = <<>>
    /\ RunFirst
    /\ NormIdle
    /\ MatchIdle
    /\ LookupIdle
    /\ OthersIdle

\* sv_scraper_v2.py:557: the ids of the storable products of product_codes.
RECURSIVE StorableIds(_)
StorableIds(n) ==
    IF n = 0 THEN <<>>
    ELSE StorableIds(n - 1)
           \o (IF CodeNames[n] \in DOMAIN cache.product_info
                  /\ cache.product_info[CodeNames[n]].is_storable
               THEN <<cache.product_info[CodeNames[n]].product_id>> ELSE <<>>)

\* One iteration of the loop of sv_scraper_v2.py:576-593.
SVPrepareStep(st, item, quants) ==
    IF item.code \notin DOMAIN cache.product_info THEN st
    ELSE LET info == cache.product_info[item.code]
             entry == [prod |-> info.product_id, qty |-> item.avail, code |-> item.code]
         IN  IF ~info.is_storable THEN [st EXCEPT !.skipped = @ + 1]
             ELSE IF info.product_id \in DOMAIN quants
             THEN (IF quants[info.product_id] # item.avail
                   THEN [st EXCEPT !.update = Append(@, entry)] ELSE st)
             ELSE [st EXCEPT !.create = Append(@, entry)]

RECURSIVE SVPrepareFrom(_, _, _)
SVPrepareFrom(st, i, quants) ==
    IF i > Len(items) THEN st
    ELSE SVPrepareFrom(SVPrepareStep(st, items[i], quants), i + 1, quants)

\* sv_scraper_v2.py:615-619: the distinct quantities of to_update, in the
\* order of their first occurrence (the keys of updates_by_qty).
RECURSIVE QuantityGroups(_, _)
QuantityGroups(entries, i) ==
    IF i > Len(entries) THEN <<>>
    ELSE LET rest == QuantityGroups(entries, i + 1) IN
         <<entries[i].qty>> \o SelectSeq(rest, LAMBDA q : q # entries[i].qty)

SVAfterUpdates(create) == IF create = <<>> THEN "sv_done" ELSE "sv_create"

(***************************************************************************)
(* sv_scraper_v2.py:556-595: the search_read of the existing quants (an    *)
(* exception is not caught and ends the run) and the split into to_update  *)
(* and to_create.                                                          *)
(***************************************************************************)
SVPrepareUpdates ==
    /\ pc = "sv_quants"
    /\ LET ids == StorableIds(MaxItems) IN
       \E script \in IF ids = <<>> THEN {<<Answered>>} ELSE WriteScripts :
         LET r == ModelsExecuteKw(script)
             quants == [p \in SeqRange(ids) \cap DOMAIN wQuant |-> wQuant[p]]
             st == SVPrepareFrom([update |-> <<>>, create |-> <<>>, skipped |-> 0], 1, quants)
         IN /\ product_ids' = ids
            /\ rpc' = IF ids = <<>> THEN rpc
                      ELSE Append(rpc, Request("stock.quant", "search_read", <<>>, FALSE, r))
            /\ IF ~r.ok
               THEN /\ pc' = "sv_raised"
                    /\ UNCHANGED <<existing_quants, quants_to_update, quants_to_create,
                                   results, idx>>
               ELSE /\ existing_quants' = quants
                    /\ quants_to_update' = st.update
                    /\ quants_to_create' = st.create
                    /\ results' = [results EXCEPT !.skipped_non_storable = st.skipped]
                    /\ idx' = 1
                    /\ pc' = IF st.update # <<>> THEN "sv_update"
                             ELSE SVAfterUpdates(st.create)
    /\ UNCHANGED <<cache, product_id_to_code, product_id_to_avail, wQuant>>
    /\ PassFrame

RECURSIVE SVErrors(_, _, _)
SVErrors(errs, entries, r) ==
    IF entries = <<>> THEN errs
    ELSE SVErrors(Append(errs, [code |-> Head(entries).code, error |-> r.val]),
                  Tail(entries), r)

(***************************************************************************)
(* One iteration of the loop of sv_scraper_v2.py:622-636: one write for    *)
(* all the quants that get the same quantity.                              *)
(***************************************************************************)
SVWriteGroup ==
    /\ pc = "sv_update"
    /\ LET groups == QuantityGroups(quants_to_update, 1)
           quantity == groups[idx]
           group == SelectSeq(quants_to_update, LAMBDA e : e.qty = quantity)
       IN /\ \E script \in WriteScripts :
               LET r == StockCall(script) IN
               /\ rpc' = Append(rpc, Request("stock.quant", "write", RecsOf(group), FALSE, r))
               /\ results' = IF r.ok THEN [results EXCEPT !.updated = @ + Len(group)]
                             ELSE [results EXCEPT !.errors = SVErrors(@, group, r)]
               /\ wQuant' = IF r.ok THEN ApplyCreates(wQuant, group, 1) ELSE wQuant
          /\ idx' = IF idx < Len(groups) THEN idx + 1 ELSE 1
          /\ pc' = IF idx < Len(groups) THEN "sv_update" ELSE SVAfterUpdates(quants_to_create)
    /\ UNCHANGED <<cache, product_ids, product_id_to_code, product_id_to_avail,
                   existing_quants, quants_to_update, quants_to_create>>
    /\ PassFrame

\* The fallback of one chunk, sv_scraper_v2.py:668-681: one create per
\* record, each answered by outs[i].
RECURSIVE SVFallback(_, _, _, _)
SVFallback(st, chunk, outs, i) ==
    IF i > Len(chunk) THEN st
    ELSE LET e == chunk[i]
             r == StockCall(outs[i])
             q == Request("stock.quant", "create", <<[prod |-> e.prod, qty |-> e.qty]>>,
                          FALSE, r)
             next == IF r.ok
                     THEN [st EXCEPT !.rpc = Append(@, q),
                                     !.res.created = @ + 1,
                                     !.quant = (e.prod :> e.qty) @@ @]
                     ELSE [st EXCEPT !.rpc = Append(@, q),
                                     !.res.errors = Append(@, [code |-> e.code,
                                                               error |-> r.val])]
         IN SVFallback(next, chunk, outs, i + 1)

Min(a, b) == IF a < b THEN a ELSE b

(***************************************************************************)
(* One iteration of the loop of sv_scraper_v2.py:646-681: one create call  *)
(* for the next batch_size records and, when it fails, one create per      *)
(* record of that chunk.                                                   *)
(***************************************************************************)
SVCreateChunk ==
    /\ pc = "sv_create"
    /\ LET last == Min(idx + batch_size - 1, Len(quants_to_create))
           batch == SubSeq(quants_to_create, idx, last)
       IN /\ \E script \in WriteScripts :
             \E outs \in [1..Len(batch) -> WriteScripts] :
               LET r == StockCall(script)
                   bulk == Request("stock.quant", "create", RecsOf(batch), FALSE, r)
                   st == SVFallback([rpc |-> Append(rpc, bulk), res |-> results,
                                     quant |-> wQuant], batch, outs, 1)
               IN /\ r.ok => \A i \in 1..Len(batch) : outs[i] = script
                  /\ rpc' = IF r.ok THEN Append(rpc, bulk) ELSE st.rpc
                  /\ results' = IF r.ok THEN [results EXCEPT !.created = @ + Len(batch)]
                                ELSE st.res
                  /\ wQuant' = IF r.ok THEN ApplyCreates(wQuant, batch, 1) ELSE st.quant
          /\ idx' = IF last < Len(quants_to_create) THEN last + 1 ELSE 1
          /\ pc' = IF last < Len(quants_to_create) THEN "sv_create" ELSE "sv_done"
    /\ UNCHANGED <<cache, product_ids, product_id_to_code, product_id_to_avail,
                   existing_quants, quants_to_update, quants_to_create>>
    /\ PassFrame

(***************************************************************************)
(* SVScraperV2.run from phase 3 on, sv_scraper_v2.py:727-756: the parallel *)
(* lookups of scrape_all_products, the sequential second pass of           *)
(* retry_not_found_sequential, then update_odoo_stock.  product_codes is   *)
(* not empty and the login succeeded (run returns before phase 3           *)
(* otherwise).                                                             *)
(***************************************************************************)
\* A call of process_code submitted to the pool, before it returns.
Future(state) == [state |-> state, stock |-> 0, was_found |-> FALSE, had_api_error |-> FALSE]

InitScrape ==
    /\ RetryInit
    /\ RunFirst
    /\ NormIdle
    /\ MatchIdle
    /\ LookupIdle
    /\ SearchIdle
    /\ POIdle
    /\ \E n \in 1..MaxItems :
         /\ wProd = [c \in Codes |-> IF \E i \in 1..n : CodeNames[i] = c
                                     THEN CHOOSE i \in 1..n : CodeNames[i] = c ELSE 0]
         /\ wStorable \in SUBSET (1..n)
         /\ \E Q \in SUBSET (1..n) : wQuant \in [Q -> StockValues]
         /\ cache = [EmptyCache EXCEPT
                       !.loc = LocId,
                       !.product_info = [c \in { CodeNames[i] : i \in 1..n } |->
                                           ProductInfoOf(wProd[c])]]
         /\ codes_list = [i \in 1..n |-> CodeNames[i]]
         /\ futures = [c \in { CodeNames[i] : i \in 1..n } |-> Future("queued")]
    /\ wBom = {}
    /\ wRules = EmptyFn
    /\ items = <<>>
    /\ pc = "sv_scrape"
    /\ product_ids = <<>>
    /\ product_id_to_code = EmptyFn
    /\ product_id_to_avail = EmptyFn
    /\ existing_quants = EmptyFn
    /\ quants_to_update = <<>>
    /\ quants_to_create = <<>>
    /\ idx = 0
    /\ results = EmptyCounts
    /\ rpc = <<>>
    /\ stock_results = <<>>
    /\ not_found = <<>>
    /\ found_without_stock = <<>>
    /\ processed = 0
    /\ found_count = 0
    /\ still_not_found = <<>>
    /\ recovered = 0
    /\ spc = "pool"

ScrapeFrame == UNCHANGED <<retryVars, worldVars, passVars, runVars, normVars, matchVars,
                           lookupVars, searchVars, poVars, codes_list>>

\* What process_code returns for a code, sv_scraper_v2.py:410-421:
\* (stock, was_found, had_api_error).
ProcessCodeOutcomes ==
    { [state |-> "done", stock |-> s, was_found |-> TRUE, had_api_error |-> FALSE] :
        s \in StockValues }
      \cup { [state |-> "done", stock |-> 0, was_found |-> FALSE, had_api_error |-> FALSE],
             [state |-> "done", stock |-> 0, was_found |-> FALSE, had_api_error |-> TRUE] }

Running == { c \in DOMAIN futures : futures[c].state = "running" }

Completed == { c \in DOMAIN futures : futures[c].state = "done" }

\* The first submitted code no worker has taken yet (0: none).
NextQueued ==
    IF \E i \in 1..Len(codes_list) : futures[codes_list[i]].state = "queued"
    THEN CHOOSE i \in 1..Len(codes_list) :
           /\ futures[codes_list[i]].state = "queued"
           /\ \A j \in 1..(i - 1) : futures[codes_list[j]].state # "queued"
    ELSE 0

\* ThreadPoolExecutor(max_workers): a free worker takes the next submitted
\* call of process_code.
StartLookup ==
    /\ spc = "pool"
    /\ NextQueued # 0
    /\ Cardinality(Running) < MaxWorkers
    /\ futures' = [futures EXCEPT ![codes_list[NextQueued]] = Future("running")]
    /\ UNCHANGED <<stock_results, not_found, found_without_stock, processed, found_count,
                   still_not_found, recovered, spc>>
    /\ ScrapeFrame

\* A worker finishes process_code for its code.
FinishLookup ==
    /\ spc = "pool"
    /\ \E c \in Running :
       \E outcome \in ProcessCodeOutcomes :
         futures' = [futures EXCEPT ![c] = outcome]
    /\ UNCHANGED <<stock_results, not_found, found_without_stock, processed, found_count,
                   still_not_found, recovered, spc>>
    /\ ScrapeFrame

Yielded == { stock_results[i].code : i \in 1..Len(stock_results) }

CountResultDropErrors(agg, code, o) ==
    IF o.had_api_error THEN agg
    ELSE IF o.was_found
    THEN (IF o.stock > 0
          THEN [agg EXCEPT !.processed = @ + 1, !.found = @ + 1]
          ELSE [agg EXCEPT !.processed = @ + 1,
                           !.found_without_stock = Append(@, code)])
    ELSE [agg EXCEPT !.processed = @ + 1, !.not_found = Append(@, code)]

\* sv_scraper_v2.py:431-443: the counters and lists after one result.
CountResult(agg, code, o) ==
    LET counted == [agg EXCEPT !.processed = @ + 1] IN
    IF o.had_api_error THEN [counted EXCEPT !.not_found = Append(@, code)]
    ELSE IF o.was_found
    THEN (IF o.stock > 0 THEN [counted EXCEPT !.found = @ + 1]
          ELSE [counted EXCEPT !.found_without_stock = Append(@, code)])
    ELSE [counted EXCEPT !.not_found = Append(@, code)]

(***************************************************************************)
(* One iteration of `for future in as_completed(futures)`,                 *)
(* sv_scraper_v2.py:427-450, in the main thread: any completed future not  *)
(* yet yielded.  The loop ends when every future has been yielded.         *)
(***************************************************************************)
CollectResult ==
    /\ spc = "pool"
    /\ \E c \in Completed \ Yielded :
         LET o == futures[c]
             agg == CountResult([processed |-> processed, found |-> found_count,
                                 not_found |-> not_found,
                                 found_without_stock |-> found_without_stock], c, o)
         IN /\ stock_results' = Append(stock_results, [code |-> c, stock |-> o.stock])
            /\ processed' = agg.processed
            /\ found_count' = agg.found
            /\ not_found' = agg.not_found
            /\ found_without_stock' = agg.found_without_stock
            /\ spc' = IF Len(stock_results) + 1 = Len(codes_list) THEN "drained" ELSE "pool"
    /\ UNCHANGED <<futures, still_not_found, recovered>>
    /\ ScrapeFrame

\* stock_results[code] = stock on a dict that holds the key: the entry keeps
\* its place.
SetStock(res, code, stock) ==
    [i \in 1..Len(res) |-> IF res[i].code = code THEN [code |-> code, stock |-> stock]
                           ELSE res[i]]

\* What the second search_product of a code gives: a product with its
\* stock, None, or an exception.
RetryOutcomes ==
    { [kind |-> "product", stock |-> s] : s \in StockValues }
      \cup { [kind |-> "None", stock |-> 0], [kind |-> "exception", stock |-> 0] }

(***************************************************************************)
(* One iteration of the loop of retry_not_found_sequential,                *)
(* sv_scraper_v2.py:484-508.  Called only when not_found is not empty      *)
(* (sv_scraper_v2.py:743); on return not_found_codes is still_not_found.   *)
(***************************************************************************)
RetryNotFound ==
    /\ spc \in {"drained", "retry"}
    /\ not_found # <<>>
    /\ LET i == Len(still_not_found) + recovered + 1
           code == not_found[i]
           last == i = Len(not_found)
       IN \E o \in RetryOutcomes :
            LET is_found == o.kind = "product"
                still == IF is_found THEN still_not_found
                         ELSE Append(still_not_found, code)
            IN /\ stock_results' = IF is_found THEN SetStock(stock_results, code, o.stock)
                                   ELSE stock_results
               /\ recovered' = IF is_found THEN recovered + 1 ELSE recovered
               /\ found_without_stock' = IF is_found /\ o.stock = 0
                                         THEN Append(found_without_stock, code)
                                         ELSE found_without_stock
               /\ still_not_found' = still
               /\ not_found' = IF last THEN still ELSE not_found
               /\ spc' = IF last THEN "retried" ELSE "retry"
    /\ UNCHANGED <<futures, processed, found_count>>
    /\ ScrapeFrame

(***************************************************************************)
(* sv_scraper_v2.py:751-756: update_odoo_stock is called with              *)
(* stock_results as it stands.                                             *)
(***************************************************************************)
CallUpdateOdooStock ==
    /\ \/ spc = "retried"
       \/ spc = "drained" /\ not_found = <<>>
    /\ pc = "sv_scrape"
    /\ items' = [i \in 1..Len(stock_results) |->
                   [code |-> stock_results[i].code, avail |-> stock_results[i].stock]]
    /\ pc' = "sv_quants"
    /\ spc' = "update"
    /\ UNCHANGED <<retryVars, worldVars, cache, product_ids, product_id_to_code,
                   product_id_to_avail, existing_quants, quants_to_update,
                   quants_to_create, idx, results, rpc, runVars, normVars, matchVars,
                   lookupVars, searchVars, poVars, codes_list, futures, stock_results,
                   not_found, found_without_stock, processed, found_count,
                   still_not_found, recovered>>

NextScrape ==
    \/ StartLookup
    \/ FinishLookup
    \/ CollectResult
    \/ RetryNotFound
    \/ CallUpdateOdooStock
    \/ SVPrepareUpdates
    \/ SVWriteGroup
    \/ SVCreateChunk

SpecScrape == InitScrape /\ [][NextScrape]_vars

(***************************************************************************)
(* The purchase-order automation on stock.picking,                         *)
(* odoo_code/v2_generacion_orden_compra_venta_scraper.py, and the          *)
(* automation on the receptions of the purchase orders it creates,         *)
(* odoo_code/v2_automatizacion_consumo_stock_scraper.py.  A str is a       *)
(* sequence of one-character strings.  One outgoing picking, pending       *)
(* throughout; the first automation runs on it every time the picking is   *)
(* updated while it matches the filter, the second runs on the reception   *)
(* of a purchase order when the reception is validated, and a user may     *)
(* cancel a purchase order in between.  Every res.partner of the model is  *)
(* a supplier (supplier_rank > 0).  The model keeps no price, so the       *)
(* seller_ids the second version reads for the price (lines 140-143) are   *)
(* left empty in SpecPO.                                                   *)
(***************************************************************************)
MaxLines == 2
MaxAutomationRuns == 3

UpperLetters ==
    <<"A", "B", "C", "D", "E", "F", "G", "H", "I", "J", "K", "L", "M", "N",
      "O", "P", "Q", "R", "S", "T", "U", "V", "W", "X", "Y", "Z">>

LowerLetters26 ==
    <<"a", "b", "c", "d", "e", "f", "g", "h", "i", "j", "k", "l", "m", "n",
      "o", "p", "q", "r", "s", "t", "u", "v", "w", "x", "y", "z">>

\* Case folding of one character, as a case-insensitive comparison does it.
FoldChar(c) ==
    IF \E i \in 1..26 : UpperLetters[i] = c
    THEN LowerLetters26[CHOOSE i \in 1..26 : UpperLetters[i] = c]
    ELSE c

Fold(str) == [i \in 1..Len(str) |-> FoldChar(str[i])]

\* Python's `sub in str`.
IsSubstring(str, sub) ==
    \E i \in 0..Len(str) : i + Len(sub) <= Len(str) /\ SubSeq(str, i + 1, i + Len(sub)) = sub

\* The domain operator 'ilike' of Odoo: case-insensitive substring match.
Ilike(value, pattern) == IsSubstring(Fold(value), Fold(pattern))

LocPR ==
    <<"P", "R", " ", "-", " ", "S", "c", "r", "a", "p", "i", "n", "g">>

LocSV ==
    <<"S", "V", " ", "-", " ", "S", "c", "r", "a", "p", "i", "n", "g">>

LocBluecar ==
    <<"B", "l", "u", "e", "c", "a", "r", " ", "-", " ", "S", "c", "r", "a",
      "p", "i", "n", "g">>

LocStock ==
    <<"S", "t", "o", "c", "k">>

SupplierPR ==
    <<"P", "R", " ", "S", "H", " ", "D", "E", " ", "O", "L", "I", "V", "E",
      "I", "R", "A", " ", "R", "O", "B", "E", "R", "T", "O", " ", "Y", " ",
      "J", "U", "A", "N", " ", "Q", "U", "I", "R", "O", "Z">>

SupplierSV ==
    <<"S", "E", "R", "V", "I", "C", "I", "O", "S", " ", "V", "I", "A", "L",
      "E", "S", " ", "D", "E", " ", "S", "A", "N", "T", "A", " ", "F", "E",
      " ", "S", " ", "A">>

SCRAPING_SUFFIX ==
    <<"-", " ", "S", "c", "r", "a", "p", "i", "n", "g">>

PartnerPRLong ==
    <<"P", "R", " ", "S", "H", " ", "D", "E", " ", "O", "L", "I", "V", "E",
      "I", "R", "A", " ", "R", "O", "B", "E", "R", "T", "O", " ", "Y", " ",
      "J", "U", "A", "N", " ", "Q", "U", "I", "R", "O", "Z", " ", "S", "R",
      "L">>

PartnerSVMixedCase ==
    <<"S", "e", "r", "v", "i", "c", "i", "o", "s", " ", "V", "i", "a", "l",
      "e", "s", " ", "d", "e", " ", "S", "a", "n", "t", "a", " ", "F", "e",
      " ", "S", " ", "A">>

PickingName ==
    <<"W", "H", "/", "P", "I", "C", "K", "/", "0", "0", "0", "1", "2">>

\* odoo_code/v2_generacion_orden_compra_venta_scraper.py:25-29
SCRAPING_LOCATIONS == (LocPR :> SupplierPR) @@ (LocSV :> SupplierSV)

LocationNames == {LocPR, LocSV, LocBluecar, LocStock}

PartnerNames == {SupplierPR, SupplierSV, PartnerPRLong, PartnerSVMixedCase}

POProducts == {1, 2}

\* A move line: its source location, its product, its quantity and, for a
\* line whose quantity is 0, its reserved_uom_qty.
MoveLines ==
    { [location |-> l, product |-> p, quantity |-> q, reserved_uom_qty |-> r] :
        l \in LocationNames, p \in POProducts, q \in {0, 1}, r \in {0, 1} }

NonRedundant(line) == line.quantity # 0 => line.reserved_uom_qty = 0

InitPO ==
    /\ RetryInit
    /\ PassIdle
    /\ RunFirst
    /\ NormIdle
    /\ MatchIdle
    /\ LookupIdle
    /\ SearchIdle
    /\ ScrapeIdle
    /\ res_partner \in SUBSET PartnerNames
    /\ \E n \in 0..MaxLines :
         /\ move_lines \in [1..n -> MoveLines]
         /\ \A i \in 1..n : NonRedundant(move_lines[i])
    /\ purchase_orders = <<>>
    /\ automation_runs = 0
    /\ seller_ids = <<>>

POOthers == UNCHANGED <<retryVars, worldVars, passVars, runVars, normVars, matchVars,
                        lookupVars, searchVars, scrapeVars, res_partner, seller_ids>>

POFrame == POOthers /\ UNCHANGED move_lines

\* lines 41-44: the purchase orders found by
\* [('origin', 'ilike', picking.name), ('state', '!=', 'cancel')].
pos_existentes ==
    SelectSeq(purchase_orders,
              LAMBDA po : Ilike(po.origin, PickingName) /\ po.state # "cancel")

\* lines 46-53: set(pos_existentes.mapped('partner_id.name'))
proveedores_ya_creados == { pos_existentes[i].partner : i \in 1..Len(pos_existentes) }

NoPartner == <<>>

\* lines 97-107: search by ('name', '=', ...) and, when that finds nothing,
\* by ('name', 'ilike', ...), each with limit=1.
SearchPartner(proveedor_nombre) ==
    IF proveedor_nombre \in res_partner THEN proveedor_nombre
    ELSE IF \E n \in res_partner : Ilike(n, proveedor_nombre)
    THEN CHOOSE n \in res_partner : Ilike(n, proveedor_nombre)
    ELSE NoPartner

\* lines 83-88
LineQty(line) == IF line.quantity = 0 THEN line.reserved_uom_qty ELSE line.quantity

\* lines 111-118: compras_por_proveedor[partner][prod] += qty, the dict
\* kept as a sequence of [partner, productos] in insertion order.
Accumulate(compras, partner, prod, qty) ==
    IF \E i \in 1..Len(compras) : compras[i].partner = partner
    THEN [i \in 1..Len(compras) |->
            IF compras[i].partner # partner THEN compras[i]
            ELSE [compras[i] EXCEPT !.productos =
                    IF prod \in DOMAIN @ THEN [@ EXCEPT ![prod] = @ + qty]
                    ELSE (prod :> qty) @@ @]]
    ELSE Append(compras, [partner |-> partner, productos |-> (prod :> qty)])

\* One iteration of the loop over the move lines, lines 62-120.
LineStep(compras, line, ya_creados) ==
    IF ~IsSubstring(line.location, SCRAPING_SUFFIX) THEN compras
    ELSE IF line.location \notin DOMAIN SCRAPING_LOCATIONS THEN compras
    ELSE LET proveedor_nombre == SCRAPING_LOCATIONS[line.location] IN
         IF proveedor_nombre \in ya_creados THEN compras
         ELSE IF LineQty(line) > 0 /\ SearchPartner(proveedor_nombre) # NoPartner
         THEN Accumulate(compras, SearchPartner(proveedor_nombre), line.product,
                         LineQty(line))
         ELSE compras

RECURSIVE compras_por_proveedor(_, _, _)
compras_por_proveedor(compras, i, ya_creados) ==
    IF i > Len(move_lines) THEN compras
    ELSE compras_por_proveedor(LineStep(compras, move_lines[i], ya_creados), i + 1,
                               ya_creados)

\* lines 126-153: one purchase.order per key of compras_por_proveedor.
NewOrders(compras) ==
    [i \in 1..Len(compras) |->
        [partner |-> compras[i].partner, origin |-> PickingName, state |-> "draft",
         lines |-> compras[i].productos, created_in_run |-> automation_runs + 1]]

(***************************************************************************)
(* The body of `for picking in records`, lines 34-186, for the picking.    *)
(***************************************************************************)
RunAutomation ==
    /\ automation_runs < MaxAutomationRuns
    /\ automation_runs' = automation_runs + 1
    /\ purchase_orders' =
          purchase_orders \o NewOrders(compras_por_proveedor(<<>>, 1, proveedores_ya_creados))
    /\ POFrame

\* A user cancels a purchase order.
CancelOrder ==
    /\ \E i \in 1..Len(purchase_orders) :
         /\ purchase_orders[i].state # "cancel"
         /\ purchase_orders' = [purchase_orders EXCEPT ![i].state = "cancel"]
    /\ UNCHANGED automation_runs
    /\ POFrame

\* odoo_code/v2_automatizacion_consumo_stock_scraper.py:127:
\* picking_in.location_dest_id, the location the reception puts the goods in.
location_dest_id == LocStock

\* v2_automatizacion_consumo_stock_scraper.py:39-49
es_proveedor_scraper(proveedor_nombre) ==
    \E ubicacion \in DOMAIN SCRAPING_LOCATIONS :
       LET proveedor == SCRAPING_LOCATIONS[ubicacion] IN
       \/ proveedor = proveedor_nombre
       \/ IsSubstring(proveedor_nombre, proveedor)
       \/ IsSubstring(proveedor, proveedor_nombre)

\* v2_automatizacion_consumo_stock_scraper.py:109-133: every line of the
\* outgoing picking that is at a location whose name holds SCRAPING_SUFFIX is
\* written the reception's destination, whatever the supplier of the location.
FixScraperLines(lines) ==
    [i \in 1..Len(lines) |->
        IF IsSubstring(lines[i].location, SCRAPING_SUFFIX)
        THEN [lines[i] EXCEPT !.location = location_dest_id]
        ELSE lines[i]]

(***************************************************************************)
(* The body of `for picking_in in records` of                              *)
(* v2_automatizacion_consumo_stock_scraper.py, lines 36-180, for the       *)
(* validated reception of purchase order i: picking_in.partner_id is the   *)
(* order's partner, picking_in.origin names the order and the order's      *)
(* origin names the outgoing picking (lines 60-99).                        *)
(***************************************************************************)
ValidateReception ==
    /\ \E i \in 1..Len(purchase_orders) :
         /\ purchase_orders[i].state # "cancel"
         /\ move_lines' = IF es_proveedor_scraper(purchase_orders[i].partner)
                          THEN FixScraperLines(move_lines)
                          ELSE move_lines
    /\ UNCHANGED <<purchase_orders, automation_runs>>
    /\ POOthers

NextPO ==
    \/ RunAutomation
    \/ CancelOrder
    \/ ValidateReception

SpecPO == InitPO /\ [][NextPO]_vars

(***************************************************************************)
(* The first version of the two automations,                               *)
(* odoo_code/generacion_orden_compra_venta_scraper.py and                  *)
(* odoo_code/automatizacion_consumo_stock_scraper.py, which the second     *)
(* version replaces: a location is a scraping location when its            *)
(* complete_name, in upper case, holds 'SCRAP', the supplier of a line is  *)
(* the first seller of its product, and one purchase order that is not     *)
(* cancelled stops the whole run.                                          *)
(***************************************************************************)
LocScrap ==
    <<"S", "c", "r", "a", "p">>

\* str.upper()
StrUpper(str) ==
    [i \in 1..Len(str) |->
        IF \E k \in 1..26 : LowerLetters26[k] = str[i]
        THEN UpperLetters[CHOOSE k \in 1..26 : LowerLetters26[k] = str[i]]
        ELSE str[i]]

\* generacion_orden_compra_venta_scraper.py:56 and
\* automatizacion_consumo_stock_scraper.py:73:
\* 'SCRAP' in line.location_id.complete_name.upper(), the complete name being
\* the name of the location after the names of its ancestors, here "WH/".
InScrap(line) ==
    IsSubstring(StrUpper(<<"W", "H", "/">> \o line.location),
                <<"S", "C", "R", "A", "P">>)

\* generacion_orden_compra_venta_scraper.py:53-94, one iteration of the loop.
LineStepV1(compras, line) ==
    IF ~InScrap(line) THEN compras
    ELSE IF LineQty(line) > 0 /\ seller_ids[line.product] # NoPartner
    THEN Accumulate(compras, seller_ids[line.product], line.product, LineQty(line))
    ELSE compras

RECURSIVE compras_v1(_, _)
compras_v1(compras, i) ==
    IF i > Len(move_lines) THEN compras
    ELSE compras_v1(LineStepV1(compras, move_lines[i]), i + 1)

InitPOv1 ==
    /\ RetryInit
    /\ PassIdle
    /\ RunFirst
    /\ NormIdle
    /\ MatchIdle
    /\ LookupIdle
    /\ SearchIdle
    /\ ScrapeIdle
    /\ res_partner \in SUBSET {SupplierPR, SupplierSV}
    /\ seller_ids \in [POProducts -> res_partner \cup {NoPartner}]
    /\ \E n \in 0..MaxLines :
         /\ move_lines \in [1..n -> [location : LocationNames \cup {LocScrap},
                                      product : POProducts,
                                      quantity : {0, 1},
                                      reserved_uom_qty : {0, 1}]]
         /\ \A i \in 1..n : NonRedundant(move_lines[i])
    /\ purchase_orders = <<>>
    /\ automation_runs = 0

(***************************************************************************)
(* The body of `for picking in records` of                                 *)
(* generacion_orden_compra_venta_scraper.py, lines 28-144: nothing is      *)
(* created when a purchase order that is not cancelled has the picking as  *)
(* its origin (lines 35-43).                                               *)
(***************************************************************************)
GeneracionOrdenCompra ==
    /\ automation_runs < MaxAutomationRuns
    /\ automation_runs' = automation_runs + 1
    /\ purchase_orders' =
          IF \E i \in 1..Len(purchase_orders) :
                /\ purchase_orders[i].origin = PickingName
                /\ purchase_orders[i].state # "cancel"
          THEN purchase_orders
          ELSE purchase_orders \o NewOrders(compras_v1(<<>>, 1))
    /\ POFrame

(***************************************************************************)
(* The body of `for picking_in in records` of                              *)
(* automatizacion_consumo_stock_scraper.py, lines 29-111, for the          *)
(* validated reception of a purchase order: every line of the outgoing     *)
(* picking that is at a scraping location is written the reception's       *)
(* destination (lines 70-88).                                              *)
(***************************************************************************)
ConsumoStockScraper ==
    /\ \E i \in 1..Len(purchase_orders) : purchase_orders[i].state # "cancel"
    /\ move_lines' =
          [i \in 1..Len(move_lines) |->
              IF InScrap(move_lines[i])
              THEN [move_lines[i] EXCEPT !.location = location_dest_id]
              ELSE move_lines[i]]
    /\ UNCHANGED <<purchase_orders, automation_runs>>
    /\ POOthers

NextPOv1 ==
    \/ GeneracionOrdenCompra
    \/ CancelOrder
    \/ ConsumoStockScraper

SpecPOv1 == InitPOv1 /\ [][NextPOv1]_vars

(***************************************************************************)
(* Two passes in succession over the same matched items and quantities:    *)
(* run_scheduler (main.py:3053-3068) calls main() again, which builds a new *)
(* scraper, cache and existing-record lookup; the external system keeps    *)
(* what the first pass wrote.  SVScraperV2.run (sv_scraper_v2.py:686-756)  *)
(* reads product_codes again from the same products, which gives the same  *)
(* dict.  The second pass is started after a first pass in which every     *)
(* call succeeded.                                                         *)
(***************************************************************************)
AllCallsSucceeded == \A i \in 1..Len(rpc) : rpc[i].ok

RunFrame == UNCHANGED <<retryVars, worldVars, items, normVars, matchVars, lookupVars, rpc,
                        searchVars, scrapeVars, poVars>>

RunAgain ==
    /\ run = 1
    /\ pc = "done"
    /\ AllCallsSucceeded
    /\ run' = 2
    /\ first_run' = [done |-> TRUE, quants |-> wQuant, calls |-> Len(rpc)]
    /\ pc' = "connect"
    /\ cache' = EmptyCache
    /\ product_ids' = <<>>
    /\ product_id_to_code' = EmptyFn
    /\ product_id_to_avail' = EmptyFn
    /\ existing_quants' = {}
    /\ quants_to_update' = <<>>
    /\ quants_to_create' = <<>>
    /\ idx' = 0
    /\ results' = EmptyResults
    /\ RunFrame

SVRunAgain ==
    /\ run = 1
    /\ pc = "sv_done"
    /\ AllCallsSucceeded
    /\ run' = 2
    /\ first_run' = [done |-> TRUE, quants |-> wQuant, calls |-> Len(rpc)]
    /\ pc' = "sv_quants"
    /\ product_ids' = <<>>
    /\ existing_quants' = EmptyFn
    /\ quants_to_update' = <<>>
    /\ quants_to_create' = <<>>
    /\ idx' = 0
    /\ results' = EmptyCounts
    /\ UNCHANGED <<cache, product_id_to_code, product_id_to_avail>>
    /\ RunFrame

InitTwice == Init \/ InitSV

NextTwice ==
    \/ Connect
    \/ ResolveLocation
    \/ PreloadProductInformation
    \/ PreloadKitsInformation
    \/ PartitionProducts
    \/ PreloadExistingQuants
    \/ PrepareOperations
    \/ WriteQuant
    \/ CreateQuantsBulk
    \/ CreateQuantSingle
    \/ RunAgain
    \/ SVPrepareUpdates
    \/ SVWriteGroup
    \/ SVCreateChunk
    \/ SVRunAgain

SpecTwice == InitTwice /\ [][NextTwice]_vars

(***************************************************************************)
(* Properties of the retry wrapper (SpecRetry).                            *)
(***************************************************************************)
AllTransient(outcomes, k) ==
    \A i \in 1..k : ~outcomes[i].ok /\ IsTransient(outcomes[i].val)

\* C5: a call that fails k < max_retries times with a rate-limit or
\* connectivity error and then succeeds returns the value of the successful
\* invocation after exactly k + 1 invocations and k sleeps, the i-th sleep
\* lasting initial_retry_delay * 2^(i-1), hence strictly increasing.
C5_RetryThenSuccess ==
    /\ (rOutcomes # <<>> /\ rOutcomes[Len(rOutcomes)].ok) => rPc = "returned"
    /\ rPc = "returned" =>
         LET k == Len(rOutcomes) - 1 IN
         /\ rOutcomes[k + 1].ok
         /\ AllTransient(rOutcomes, k)
         /\ k < max_retries
         /\ rResult = rOutcomes[k + 1].val
         /\ rCalls = k + 1
         /\ Len(rSleeps) = k
         /\ \A i \in 1..k : rSleeps[i] = initial_retry_delay * Pow2(i - 1)
         /\ \A i \in 1..(k - 1) : rSleeps[i] < rSleeps[i + 1]

C5_Witness ==
    /\ rPc = "returned"
    /\ Len(rOutcomes) = 3
    /\ rSleeps = <<2, 4>>
    /\ rResult = <<"v2">>

\* C6: an exception that is neither rate-limit nor connectivity flavoured is
\* propagated unchanged at once, on whichever attempt it occurs: it is the
\* last invocation and no sleep follows it.
C6_FatalPropagatesImmediately ==
    \A i \in 1..Len(rOutcomes) :
       (~rOutcomes[i].ok /\ ~IsTransient(rOutcomes[i].val)) =>
          /\ i = Len(rOutcomes)
          /\ rPc = "raised"
          /\ rResult = rOutcomes[i].val
          /\ rCalls = i
          /\ Len(rSleeps) = i - 1

C6_Witness ==
    /\ rPc = "raised"
    /\ Len(rOutcomes) = 3
    /\ rOutcomes[3] = Err(<<"Access", "Denied">>)
    /\ rResult = <<"Access", "Denied">>

\* C7: the wrapper invokes the function at most max_retries times; when
\* every attempt fails with a transient error the last exception is raised
\* after exactly max_retries invocations and max_retries - 1 sleeps.
C7_AtMostMaxRetries ==
    /\ rCalls <= max_retries
    /\ Len(rSleeps) <= max_retries - 1
    /\ rPc = "call" => rCalls < max_retries
    /\ (Len(rOutcomes) = max_retries /\ AllTransient(rOutcomes, max_retries)) =>
          /\ rPc = "raised"
          /\ rCalls = max_retries
          /\ Len(rSleeps) = max_retries - 1
          /\ rResult = rOutcomes[max_retries].val
    /\ (rPc = "raised" /\ AllTransient(rOutcomes, Len(rOutcomes))) =>
          rCalls = max_retries

C7_Witness ==
    /\ rPc = "raised"
    /\ rCalls = max_retries
    /\ AllTransient(rOutcomes, max_retries)
    /\ rSleeps = <<2, 4, 8, 16>>

(***************************************************************************)
(* Properties of the synchronisation pass (Spec) and of the preloads       *)
(* (SpecPreload).                                                          *)
(***************************************************************************)
IsStockWrite(q) == q.model = "stock.quant" /\ q.method = "write"
IsStockCreate(q) == q.model = "stock.quant" /\ q.method = "create"

Writes == SelectSeq(rpc, IsStockWrite)
Creates == SelectSeq(rpc, IsStockCreate)

\* Products for which a stock write or create was issued, failed or not.
TouchedProducts ==
    UNION { { rpc[i].recs[j].prod : j \in 1..Len(rpc[i].recs) } :
            i \in { k \in 1..Len(rpc) : IsStockWrite(rpc[k]) \/ IsStockCreate(rpc[k]) } }

InSeq(x, s) == \E i \in 1..Len(s) : s[i] = x

Partitioned == pc \in {"quants", "prepare", "update", "create", "fallback", "done"}

RecOf(e) == [prod |-> e.prod, qty |-> e.qty]

\* The codes of the entries whose request, at the same index, succeeded.
RECURSIVE OkCodes(_, _, _)
OkCodes(reqs, entries, j) ==
    IF j > Len(reqs) THEN <<>>
    ELSE (IF reqs[j].ok THEN <<entries[j].code>> ELSE <<>>) \o OkCodes(reqs, entries, j + 1)

Failed(reqs) == { j \in 1..Len(reqs) : ~reqs[j].ok }

\* C1: an item whose cached template is a kit, or whose cached record is
\* not storable, never has a stock write or create issued for its record,
\* whatever its availability; once the items are partitioned it is listed
\* in kits_skipped (kit) or non_storable_skipped, and never in errors.
C1_KitsAndNonStorableSkipped ==
    \A i \in 1..Len(items) :
       LET c == items[i].code IN
       c \in DOMAIN cache.product_info =>
          LET info == cache.product_info[c]
              kit == info.template_id \in cache.kits_info
          IN (kit \/ ~info.is_storable) =>
                /\ info.product_id \notin TouchedProducts
                /\ \A k \in 1..Len(results.errors) : results.errors[k].code # c
                /\ Partitioned =>
                     IF kit THEN InSeq(c, results.kits_skipped)
                     ELSE InSeq(c, results.non_storable_skipped)

C1_Witness ==
    /\ pc = "done"
    /\ Len(items) = 2
    /\ items[1].avail = "2"
    /\ items[1].code \in DOMAIN cache.product_info
    /\ cache.product_info[items[1].code].template_id \in cache.kits_info
    /\ cache.product_info[items[1].code].is_storable
    /\ results.kits_skipped = <<items[1].code>>
    /\ results.updated = <<items[2].code>>

\* C2: a failed write is recorded for its item in errors with its message,
\* the write of every other eligible item is still attempted, the items
\* whose write succeeded are reported as updated, and the creates still
\* follow: one record's failure never aborts the batch.
C2_WriteFailureIsolated ==
    LET W == Writes IN
    /\ Len(W) <= Len(quants_to_update)
    /\ pc = "update" => Len(W) = idx - 1
    /\ pc \in {"create", "fallback", "done"} => Len(W) = Len(quants_to_update)
    /\ \A j \in 1..Len(W) : W[j].recs = <<RecOf(quants_to_update[j])>>
    /\ results.updated = OkCodes(W, quants_to_update, 1)
    /\ \A j \in Failed(W) :
          InSeq([code |-> quants_to_update[j].code, error |-> W[j].err], results.errors)
    /\ (pc = "done" /\ quants_to_create # <<>>) => Creates # <<>>

C2_Witness ==
    /\ pc = "done"
    /\ Len(Writes) = 2
    /\ ~Writes[1].ok
    /\ Writes[2].ok
    /\ quants_to_update[1].code # quants_to_update[2].code
    /\ results.updated = <<quants_to_update[2].code>>
    /\ results.errors = <<[code |-> quants_to_update[1].code, error |-> <<"ValidationError">>]>>

NotInCacheCount == Cardinality({ i \in 1..Len(items) : items[i].code \notin DOMAIN cache.product_info })

\* C3: when the bulk create fails, every record of the chunk is created
\* individually; the records whose individual create succeeds are reported
\* as created and only those whose individual create fails are added to
\* errors.
C3_BulkCreateFallback ==
    LET C == Creates IN
    (C # <<>> /\ ~C[1].ok) =>
       LET S == SubSeq(C, 2, Len(C)) IN
       /\ pc \in {"fallback", "done"}
       /\ C[1].recs = RecsOf(quants_to_create)
       /\ pc = "fallback" => Len(S) = idx - 1
       /\ pc = "done" => Len(S) = Len(quants_to_create)
       /\ \A j \in 1..Len(S) : S[j].recs = <<RecOf(quants_to_create[j])>>
       /\ results.created = OkCodes(S, quants_to_create, 1)
       /\ \A j \in Failed(S) :
             InSeq([code |-> quants_to_create[j].code, error |-> S[j].err], results.errors)
       /\ Len(results.errors) =
             NotInCacheCount + Cardinality(Failed(Writes)) + Cardinality(Failed(S))

C3_Witness ==
    /\ pc = "done"
    /\ Len(Creates) = 3
    /\ ~Creates[1].ok
    /\ Len(Creates[1].recs) = 2
    /\ Creates[2].ok
    /\ ~Creates[3].ok
    /\ quants_to_create[1].code # quants_to_create[2].code
    /\ results.created = <<quants_to_create[1].code>>
    /\ Len(results.errors) = 1

\* C4: when the stock location is not resolved the pass stops there: the
\* only requests ever issued are the location lookups, and a stock write or
\* create is only ever issued with a resolved location.
C4_NoLocationNoMutation ==
    /\ (pc \notin {"connect", "location", "offline"} /\ cache.loc = None) =>
          /\ pc = "aborted"
          /\ rpc \in {LocationLookups(n, raised) : n \in 1..3, raised \in 0..3}
    /\ (Writes # <<>> \/ Creates # <<>>) => cache.loc = LocId

C4_Witness ==
    /\ pc = "aborted"
    /\ cache.loc = None
    /\ Len(items) = 2
    /\ \A i \in 1..2 :
          /\ wProd[items[i].code] # 0
          /\ wProd[items[i].code] \in wStorable
          /\ TemplateOf(wProd[items[i].code]) \notin wBom
    /\ Len(rpc) = 3

\* C8: every remote call of a pass goes through the retry wrapper, and a
\* stock write or create that fails with a rate-limit or transient error
\* becomes a per-item error only after max_retries attempts.
C8_EveryCallThroughWrapper ==
    /\ \A i \in 1..Len(rpc) : rpc[i].wrapped
    /\ \A i \in 1..Len(rpc) :
          ((IsStockWrite(rpc[i]) \/ IsStockCreate(rpc[i]))
             /\ ~rpc[i].ok /\ IsTransient(rpc[i].err)) => rpc[i].attempts = max_retries

RequestsTo(model) == SelectSeq(rpc, LAMBDA q : q.model = model)

\* C9: when the three preloads have run, each has issued exactly one remote
\* call (none for the kit flags and the existing rules when no matched code
\* was resolved to a product, there being nothing to look up).
C9_OneCallPerPreload ==
    LET resolved == DOMAIN cache.product_info # {} IN
    pc = "rules_done" =>
       /\ Len(RequestsTo("product.product")) = 1
       /\ Len(RequestsTo("mrp.bom")) = IF resolved THEN 1 ELSE 0
       /\ Len(RequestsTo("stock.warehouse.orderpoint")) = IF resolved THEN 1 ELSE 0

InvalidAvail == {"None", "''", "'abc'", "nan"}

\* C10: an item whose availability is missing or invalid is written as if
\* its availability were zero; nothing is raised (no batch-level error) and
\* every eligible item of the batch still gets its update or create.
C10_InvalidAvailabilityIsZero ==
    /\ \A k \in 1..Len(results.errors) : results.errors[k].code # BatchCode
    /\ pc \in {"update", "create", "fallback", "done"} =>
          \A i \in 1..Len(product_ids) :
             LET p == product_ids[i]
                 ops == quants_to_update \o quants_to_create
             IN \E j \in 1..Len(ops) :
                   /\ ops[j].prod = p
                   /\ product_id_to_avail[p] \in InvalidAvail => ops[j].qty = 1

(***************************************************************************)
(* Properties of the normalizer (SpecNormalize).                           *)
(***************************************************************************)
\* C13: normalize_code is idempotent: applied to its own result it returns
\* that result, for every argument (a str, None or NaN).
C13_NormalizeIdempotent ==
    Len(normalized) = 2 => normalized[2] = normalized[1]

\* A str argument that normalization changes, to a non-empty key, has been
\* normalized twice.
C13_Witness ==
    /\ Len(normalized) = 2
    /\ code_arg.t = "str"
    /\ normalized[1] # <<>>
    /\ normalized[1] # code_arg.s

LowerLetters == {"a"}

\* C14: two codes that differ only in letter case, in whitespace or in the
\* characters . - _ / ( ) [ ] have the same key, and a key holds no
\* whitespace, no lowercase letter and none of those characters.
C14_CaseWhitespacePunctuationInsensitive ==
    /\ (variant.set /\ normalized # <<>>) => variant.key = normalized[1]
    /\ \A i \in 1..Len(normalized) :
         \A j \in 1..Len(normalized[i]) :
           normalized[i][j] \notin (Whitespace \cup Punctuation \cup LowerLetters)
    /\ variant.set =>
         \A j \in 1..Len(variant.key) :
           variant.key[j] \notin (Whitespace \cup Punctuation \cup LowerLetters)

\* A code and a different code one edit away have both been normalized, to a
\* non-empty key.
C14_Witness ==
    /\ variant.set
    /\ normalized # <<>>
    /\ normalized[1] # <<>>
    /\ variant.code # code_arg.s
    /\ \E j \in 1..Len(variant.code) : variant.code[j] \in Ignored \cup LowerLetters

(***************************************************************************)
(* Properties of the matcher (SpecMatch).                                  *)
(***************************************************************************)
\* The authoritative code set A, read off the input column.
AuthoritativeCodes == { Strip(df_productos[i]) : i \in 1..Len(df_productos) }

KeyOf(c) == normalize_code(PyStr(c))

CodesWithKey(column, k) ==
    { Strip(column[i]) : i \in { j \in 1..Len(column) : KeyOf(column[j]) = k } }

\* The code of the last row of the column whose key is k.
LastWithKey(column, k) ==
    LET rows == { j \in 1..Len(column) : KeyOf(column[j]) = k }
        last == CHOOSE j \in rows : \A h \in rows : h <= j
    IN Strip(column[last])

\* The non-empty keys found in both columns.
SharedKeys ==
    ({ KeyOf(df_productos[i]) : i \in 1..Len(df_productos) }
       \cap { KeyOf(df_articulos[i]) : i \in 1..Len(df_articulos) }) \ {<<>>}

Collides(k) ==
    \/ Cardinality(CodesWithKey(df_productos, k)) > 1
    \/ Cardinality(CodesWithKey(df_articulos, k)) > 1

\* C15: every exact match is in the combined match set, and every code of
\* the combined match set is a key of scraping_to_odoo_code whose value is
\* an authoritative code.
C15_CombinedMatchesResolve ==
    mpc = "done" =>
      /\ matched_codes_exact \subseteq matched_codes
      /\ \A c \in matched_codes :
           /\ c \in DOMAIN scraping_to_odoo_code
           /\ scraping_to_odoo_code[c] \in AuthoritativeCodes

\* The matcher has finished with an exact match and a match found only
\* after normalization, among colliding codes.
C15_Witness ==
    /\ mpc = "done"
    /\ matched_codes_exact # {}
    /\ matched_codes_exact \ matched_codes_normalized # {}
    /\ matched_codes_normalized \ matched_codes_exact # {}

\* C16: every exact match maps to itself in scraping_to_odoo_code, whatever
\* other codes share its key.
C16_ExactMatchesMapToThemselves ==
    mpc = "done" => \A c \in matched_codes_exact : scraping_to_odoo_code[c] = c

\* C17 as stated: when several codes of a column share a key, the
\* MatchMapping holds exactly one entry for that key, the one of the codes
\* processed last.
C17_OneMappingPerKey ==
    mpc = "done" =>
      \A k \in SharedKeys :
        Collides(k) =>
          /\ { c \in DOMAIN scraping_to_odoo_code : KeyOf(c) = k }
               = { LastWithKey(df_articulos, k) }
          /\ scraping_to_odoo_code[LastWithKey(df_articulos, k)]
               = LastWithKey(df_productos, k)

\* C17 amended: for a key shared under collision the matcher records
\* exactly one normalized match, last scraped code -> last authoritative
\* code; any other entry of the MatchMapping with that key is an exact match
\* mapped to itself.
C17_LastAssignmentWins ==
    mpc = "done" =>
      \A k \in SharedKeys :
        Collides(k) =>
          LET last == LastWithKey(df_articulos, k) IN
          /\ { c \in matched_codes_normalized : KeyOf(c) = k } = {last}
          /\ scraping_to_odoo_code[last] = LastWithKey(df_productos, k)
          /\ \A c \in DOMAIN scraping_to_odoo_code :
               (KeyOf(c) = k /\ c # last) =>
                 (c \in matched_codes_exact /\ scraping_to_odoo_code[c] = c)

\* The matcher has finished on columns where two authoritative codes and
\* two scraped codes share a key.
C17_Witness ==
    /\ mpc = "done"
    /\ \E k \in SharedKeys :
         /\ Cardinality(CodesWithKey(df_productos, k)) > 1
         /\ Cardinality(CodesWithKey(df_articulos, k)) > 1
         /\ LastWithKey(df_articulos, k) # LastWithKey(df_productos, k)

(***************************************************************************)
(* Properties of the parallel lookups (SpecLookup).                        *)
(***************************************************************************)
\* C18: no session object is shared between workers: two requests that went
\* through the same session object were issued by the same thread.
C18_NoSessionShared ==
    \A i \in 1..Len(http_requests) :
      \A j \in 1..Len(http_requests) :
        http_requests[i].session = http_requests[j].session
          => http_requests[i].thread = http_requests[j].thread


(***************************************************************************)
(* Properties of two passes in succession (SpecTwice).                     *)
(***************************************************************************)
SecondRunCalls == SubSeq(rpc, first_run.calls + 1, Len(rpc))

\* C12: when the pass is run a second time over the same items and
\* quantities, with the reference data and the existing-quant lookup built
\* anew and every call succeeding, the stock records stay as the first pass
\* left them: the second pass creates no stock record and changes no
\* quantity.
C12_SecondPassChangesNothing ==
    (run = 2 /\ AllCallsSucceeded) =>
        /\ wQuant = first_run.quants
        /\ \A i \in 1..Len(SecondRunCalls) : ~IsStockCreate(SecondRunCalls[i])

C12_Witness ==
    /\ run = 2
    /\ pc = "done"
    /\ AllCallsSucceeded
    /\ \E i \in 1..first_run.calls : IsStockCreate(rpc[i]) /\ Len(rpc[i].recs) = 2
    /\ \E i \in 1..Len(SecondRunCalls) : IsStockWrite(SecondRunCalls[i])


(***************************************************************************)
(* Properties of the update and create phases of the stock pass.           *)
(***************************************************************************)
UpdatePhaseOver == pc \in {"create", "fallback", "done", "sv_create", "sv_done"}

DistinctQuantities == { quants_to_update[i].qty : i \in 1..Len(quants_to_update) }

\* C19: once the update phase of a pass is over, the number of write calls
\* it issued on stock.quant equals the number of distinct quantities
\* written, not the number of quants updated.
C19_OneWritePerDistinctQuantity ==
    (run = 1 /\ UpdatePhaseOver) => Len(Writes) = Cardinality(DistinctQuantities)

\* C20: no create call on stock.quant carries more records than the chunk
\* size (SpecBulkCreate: the batch of main.py over up to MaxCreates items).
C20_CreatesWithinBatchSize ==
    \A i \in 1..Len(rpc) : IsStockCreate(rpc[i]) => Len(rpc[i].recs) <= batch_size


(***************************************************************************)
(* Further properties of the stock pass of main.py (Spec).                 *)
(***************************************************************************)
InBatch == pc \in {"batch", "quants", "prepare", "update", "create", "fallback"}

\* C22: from the call of update_matched_products_batch to its return, on
\* success or on failure, no step changes cached_data (location id,
\* product_info, kits_info, existing_rules) or the input list of
\* (code, data) pairs.
C22_CacheReadOnlyInBatch ==
    [][InBatch => (cache' = cache /\ items' = items)]_vars

C22_Witness ==
    /\ pc = "done"
    /\ cache.loc = LocId
    /\ DOMAIN cache.product_info # {}
    /\ cache.kits_info # {}
    /\ \E i \in 1..Len(Writes) : ~Writes[i].ok

StockRequests == SelectSeq(rpc, LAMBDA q : IsStockWrite(q) \/ IsStockCreate(q))

ZeroOrMissing(a) == a \in {"None", "''", "0"}

\* C23: every quantity sent in a stock write or create is 0 or 1, and it is
\* the inverted availability of an item that resolves to the product: 1
\* when that availability is 0 or missing, 0 when it is a nonzero number.
C23_InvertedAvailability ==
    \A i \in 1..Len(StockRequests) :
      \A j \in 1..Len(StockRequests[i].recs) :
        LET rec == StockRequests[i].recs[j] IN
        /\ rec.qty \in {0, 1}
        /\ \E k \in 1..Len(items) :
              /\ wProd[items[k].code] = rec.prod
              /\ \/ ZeroOrMissing(items[k].avail) /\ rec.qty = 1
                 \/ items[k].avail = "2" /\ rec.qty = 0

C23_Witness ==
    /\ pc = "done"
    /\ Len(items) = 2
    /\ items[1].avail = "None"
    /\ items[2].avail = "2"
    /\ \E i \in 1..Len(Writes) :
          Writes[i].ok /\ Writes[i].recs = <<[prod |-> wProd[items[1].code], qty |-> 1]>>
    /\ \E i \in 1..Len(Creates) :
          Creates[i].ok /\ Creates[i].recs = <<[prod |-> wProd[items[2].code], qty |-> 0]>>

Occurrences(x, s) == Cardinality({ i \in 1..Len(s) : s[i] = x })

ErrorCodes == [i \in 1..Len(results.errors) |-> results.errors[i].code]

OutcomeCount(c) ==
    Occurrences(c, results.updated) + Occurrences(c, results.created)
      + Occurrences(c, results.kits_skipped) + Occurrences(c, results.non_storable_skipped)
      + Occurrences(c, ErrorCodes)

Returned == pc = "done" /\ items # <<>>

\* C26: when _batch_update_stock_quants has returned without a "batch"
\* error, every input code is in exactly one of updated, created,
\* kits_skipped, non_storable_skipped and errors, exactly once, and the five
\* lengths sum to the number of input items.
C26_OutcomesPartitionInput ==
    (Returned /\ Occurrences(BatchCode, ErrorCodes) = 0) =>
        /\ \A i \in 1..Len(items) : OutcomeCount(items[i].code) = 1
        /\ Len(results.updated) + Len(results.created) + Len(results.kits_skipped)
             + Len(results.non_storable_skipped) + Len(results.errors) = Len(items)

\* C27: no create call on stock.quant carries two records for the same
\* product, and no product is sent to create in two calls that succeed.
C27_OneCreatePerProduct ==
    /\ \A i \in 1..Len(Creates) :
         \A j, k \in 1..Len(Creates[i].recs) :
            Creates[i].recs[j].prod = Creates[i].recs[k].prod => j = k
    /\ \A i, k \in 1..Len(Creates) :
         (Creates[i].ok /\ Creates[k].ok /\ i # k) =>
            \A j \in 1..Len(Creates[i].recs) : \A l \in 1..Len(Creates[k].recs) :
               Creates[i].recs[j].prod # Creates[k].recs[l].prod

\* C28: a product whose template has a bill of materials in the external
\* system never has a stock write or create issued for it, whichever
\* preload calls failed.
C28_NoStockCallForKits ==
    \A p \in TouchedProducts : TemplateOf(p) \notin wBom


(***************************************************************************)
(* Further properties of the reference-data preloads (SpecPreload).        *)
(***************************************************************************)
RuleIdsListed(t) == cache.existing_rules[t]

\* C21: the rules preload issues one query for the lookups by template id
\* and by product id, and no rule id is listed more than once in the
\* mapping it returns, also for a rule that matches both lookups.
C21_RulesDeduplicated ==
    pc = "rules_done" =>
       /\ Len(RequestsTo("stock.warehouse.orderpoint")) <= 1
       /\ \A t \in DOMAIN cache.existing_rules :
             \A i, j \in 1..Len(RuleIdsListed(t)) :
                RuleIdsListed(t)[i] = RuleIdsListed(t)[j] => i = j
       /\ \A t, u \in DOMAIN cache.existing_rules :
             \A i \in 1..Len(RuleIdsListed(t)) : \A j \in 1..Len(RuleIdsListed(u)) :
                RuleIdsListed(t)[i] = RuleIdsListed(u)[j] => t = u


(***************************************************************************)
(* Properties of SVScraperV2.search_product (SpecSearch).                  *)
(***************************************************************************)
AllEmpty == \A i \in 1..Len(responses) : responses[i] = "empty"

\* C24: a lookup whose answers are all empty lists has issued
\* retry_on_empty + 1 requests when it returns, whatever `retries` is.
C24_EmptyRetriesAreAdditional ==
    (sp_return = "None" /\ responses # <<>> /\ AllEmpty) =>
        Len(responses) = retry_on_empty + 1


(***************************************************************************)
(* Properties of a run of SVScraperV2 (SpecScrape).                        *)
(***************************************************************************)
CodeSet(s) == { s[i] : i \in 1..Len(s) }

NoRepeat(s) == \A i, j \in 1..Len(s) : s[i] = s[j] => i = j

Submitted == CodeSet(codes_list)

FoundWithStock == { c \in Submitted : futures[c].was_found /\ futures[c].stock > 0 }

\* C30: when the pool has drained, whatever the order in which the workers
\* completed, results holds one entry per submitted code with the stock its
\* lookup gave, every submitted code is counted in exactly one of found
\* (with stock), found_without_stock and not_found, and processed equals
\* the number of submitted codes.
C30_ParallelResultsComplete ==
    spc = "drained" =>
       /\ Len(stock_results) = Len(codes_list)
       /\ \A c \in Submitted :
             \E i \in 1..Len(stock_results) :
                /\ stock_results[i] = [code |-> c, stock |-> futures[c].stock]
                /\ \A j \in 1..Len(stock_results) : stock_results[j].code = c => j = i
       /\ NoRepeat(not_found) /\ NoRepeat(found_without_stock)
       /\ CodeSet(not_found) = { c \in Submitted : ~futures[c].was_found }
       /\ CodeSet(found_without_stock) =
             { c \in Submitted : futures[c].was_found /\ futures[c].stock = 0 }
       /\ found_count = Cardinality(FoundWithStock)
       /\ found_count + Len(found_without_stock) + Len(not_found) = Len(codes_list)
       /\ processed = Len(codes_list)

C30_Witness ==
    /\ spc = "drained"
    /\ Len(codes_list) = 2
    /\ stock_results[1].code = codes_list[2]
    /\ futures[codes_list[1]].had_api_error
    /\ futures[codes_list[2]].was_found
    /\ futures[codes_list[2]].stock = 2
    /\ found_count = 1
    /\ not_found = <<codes_list[1]>>

\* C29: update_odoo_stock issues no stock write or create for the product
\* of a code that was found neither in the parallel pass nor in the
\* sequential second pass, and the quant of such a product stays as it was.
C29_NotFoundCodesUntouched ==
    spc = "update" =>
       \A i \in 1..Len(not_found) : wProd[not_found[i]] \notin TouchedProducts


(***************************************************************************)
(* Properties of the purchase-order automation (SpecPO).                   *)
(***************************************************************************)
LivePO(i) == purchase_orders[i].state # "cancel" /\ purchase_orders[i].origin = PickingName

\* C25: one run creates at most one purchase order per supplier, and no run
\* leaves two purchase orders that are not cancelled, originate from the
\* picking and are for the same supplier.
C25_NoSecondOrderForSupplier ==
    \A i, j \in 1..Len(purchase_orders) :
       (LivePO(i) /\ LivePO(j) /\ purchase_orders[i].partner = purchase_orders[j].partner)
          => i = j

=============================================================================
